---- MODULE Spec2Model ----
(***************************************************************************)
(* Cross-reference identifier resolution of path2target                    *)
(* (src/path2target/resolvers.py): resolve_to_ensembl_gene and             *)
(* map_gene_ids, run against registry services whose replies are chosen    *)
(* nondeterministically.                                                   *)
(*                                                                         *)
(* Python values are tagged records: None, S(chars), N(int), L(seq),       *)
(* D(function from keys to values).  A Python str is the sequence of its   *)
(* characters, so strip(), isalpha(), startswith(), lower() and the        *)
(* accession regex are computed on the characters.                         *)
(***************************************************************************)
EXTENDS Integers, Sequences, FiniteSets, TLC

(***************************************************************************)
(* Python values                                                           *)
(***************************************************************************)
None == [t |-> "none"]
S(chars) == [t |-> "str", v |-> chars]
N(n) == [t |-> "int", v |-> n]
L(items) == [t |-> "list", v |-> items]
D(f) == [t |-> "dict", v |-> f]
EmptyDict == D(<<>>)
EmptyStr == S(<<>>)
\* the outcome "an exception was raised" of an expression
Raise == [t |-> "raise"]
\* the outcome "no return statement was reached" of one adapter block
Fall == [t |-> "fall"]

\* bool(v)
Truthy(v) ==
  CASE v.t = "none" -> FALSE
    [] v.t = "str" -> v.v # <<>>
    [] v.t = "int" -> v.v # 0
    [] v.t = "list" -> v.v # <<>>
    [] v.t = "dict" -> DOMAIN v.v # {}
    [] OTHER -> TRUE

\* a or b
PyOr(a, b) == IF Truthy(a) THEN a ELSE b

\* d.get(k, default) on a dict d
GetD(d, k, default) == IF k \in DOMAIN d.v THEN d.v[k] ELSE default

\* d.get(k) on a dict d
Get(d, k) == GetD(d, k, None)

\* v[0]: first item of a list, first character of a str, an exception otherwise
\* (IndexError on an empty sequence, KeyError on a dict with str keys, TypeError)
Index0(v) ==
  IF v.t = "list" /\ v.v # <<>> THEN v.v[1]
  ELSE IF v.t = "str" /\ v.v # <<>> THEN S(<<v.v[1]>>)
  ELSE Raise

\* hash(v) is defined (lists and dicts are unhashable)
Hashable(v) == v.t \notin {"list", "dict"}

(***************************************************************************)
(* Strings                                                                 *)
(***************************************************************************)
Digits == {"0", "1", "2", "3", "4", "5", "6", "7", "8", "9"}
UpperLetters ==
  {"A", "B", "C", "D", "E", "F", "G", "H", "I", "J", "K", "L", "M",
   "N", "O", "P", "Q", "R", "S", "T", "U", "V", "W", "X", "Y", "Z"}
LowerLetters ==
  {"a", "b", "c", "d", "e", "f", "g", "h", "i", "j", "k", "l", "m",
   "n", "o", "p", "q", "r", "s", "t", "u", "v", "w", "x", "y", "z"}
Whitespace == {" ", "\t", "\n", "\r"}

UpperSeq == <<"A", "B", "C", "D", "E", "F", "G", "H", "I", "J", "K", "L", "M",
              "N", "O", "P", "Q", "R", "S", "T", "U", "V", "W", "X", "Y", "Z">>
LowerSeq == <<"a", "b", "c", "d", "e", "f", "g", "h", "i", "j", "k", "l", "m",
              "n", "o", "p", "q", "r", "s", "t", "u", "v", "w", "x", "y", "z">>

LowerChar(c) ==
  IF c \in UpperLetters
  THEN LowerSeq[CHOOSE i \in 1..26 : UpperSeq[i] = c]
  ELSE c

\* s.lower()
Lower(s) == [i \in 1..Len(s) |-> LowerChar(s[i])]

\* s.isalpha(): non-empty and every character a letter
IsAlpha(s) == s # <<>> /\ \A i \in 1..Len(s) : s[i] \in UpperLetters \cup LowerLetters

\* s.startswith(p)
StartsWith(s, p) == Len(s) >= Len(p) /\ SubSeq(s, 1, Len(p)) = p

\* p in s (substring test)
Contains(s, p) ==
  \E i \in 1..(Len(s) + 1) : i + Len(p) - 1 <= Len(s) /\ SubSeq(s, i, i + Len(p) - 1) = p

RECURSIVE LStrip(_)
LStrip(s) == IF s # <<>> /\ Head(s) \in Whitespace THEN LStrip(Tail(s)) ELSE s

RECURSIVE RStrip(_)
RStrip(s) ==
  IF s # <<>> /\ s[Len(s)] \in Whitespace THEN RStrip(SubSeq(s, 1, Len(s) - 1)) ELSE s

\* s.strip()
Strip(s) == RStrip(LStrip(s))

\* Normalize without the strip()
NormalizeNoStrip(arg) == PyOr(arg, EmptyStr).v

\* (query or "").strip()
Normalize(arg) == Strip(PyOr(arg, EmptyStr).v)

\* minimum number of digits in the accession pattern
MinDigits == 6

\* the accession regex without flags=re.I
IsAccessionCaseSensitive(s) ==
  /\ Len(s) >= 4 + MinDigits
  /\ SubSeq(s, 1, 4) = <<"E", "N", "S", "G">>
  /\ \A i \in 5..Len(s) : s[i] \in Digits

\* the accession regex without the closing anchor: a match at the start
IsAccessionAtStart(s) ==
  /\ Len(s) >= 4 + MinDigits
  /\ Lower(SubSeq(s, 1, 4)) = <<"e", "n", "s", "g">>
  /\ \A i \in 5..(4 + MinDigits) : s[i] \in Digits

\* re.match(r"^ENSG\d{6,}$", s, flags=re.I) on a stripped s
IsAccession(s) ==
  /\ Len(s) >= 4 + MinDigits
  /\ Lower(SubSeq(s, 1, 4)) = <<"e", "n", "s", "g">>
  /\ \A i \in 5..Len(s) : s[i] \in Digits

DigitSeq == <<"0", "1", "2", "3", "4", "5", "6", "7", "8", "9">>

RECURSIVE NatToStr(_)
NatToStr(n) ==
  IF n < 10 THEN <<DigitSeq[n + 1]>> ELSE NatToStr(n \div 10) \o <<DigitSeq[(n % 10) + 1]>>

\* str(v), as used by str() and by f-string interpolation
PyStr(v) ==
  CASE v.t = "str" -> v.v
    [] v.t = "int" -> IF v.v < 0 THEN <<"-">> \o NatToStr(-v.v) ELSE NatToStr(v.v)
    [] v.t = "none" -> <<"N", "o", "n", "e">>
    [] v.t = "list" /\ v.v = <<>> -> <<"[", "]">>
    [] v.t = "dict" /\ DOMAIN v.v = {} -> <<"{", "}">>
    [] OTHER -> <<"<", v.t, ">">>

(***************************************************************************)
(* Rows and their links                                                    *)
(***************************************************************************)
\* "https://www.genenames.org/tools/search/#!/all?query="
UrlHgncSearch ==
  <<"h", "t", "t", "p", "s", ":", "/", "/", "w", "w", "w", ".", "g", "e",
  "n", "e", "n", "a", "m", "e", "s", ".", "o", "r", "g", "/", "t", "o", "o",
  "l", "s", "/", "s", "e", "a", "r", "c", "h", "/", "#", "!", "/", "a", "l",
  "l", "?", "q", "u", "e", "r", "y", "=">>

\* "https://www.genenames.org/data/gene-symbol-report/#!/hgnc_id/"
UrlHgncReport ==
  <<"h", "t", "t", "p", "s", ":", "/", "/", "w", "w", "w", ".", "g", "e",
  "n", "e", "n", "a", "m", "e", "s", ".", "o", "r", "g", "/", "d", "a", "t",
  "a", "/", "g", "e", "n", "e", "-", "s", "y", "m", "b", "o", "l", "-", "r",
  "e", "p", "o", "r", "t", "/", "#", "!", "/", "h", "g", "n", "c", "_", "i",
  "d", "/">>

\* "https://www.ncbi.nlm.nih.gov/gene/"
UrlEntrez ==
  <<"h", "t", "t", "p", "s", ":", "/", "/", "w", "w", "w", ".", "n", "c",
  "b", "i", ".", "n", "l", "m", ".", "n", "i", "h", ".", "g", "o", "v", "/",
  "g", "e", "n", "e", "/">>

\* "https://www.uniprot.org/uniprotkb/"
UrlUniprot ==
  <<"h", "t", "t", "p", "s", ":", "/", "/", "w", "w", "w", ".", "u", "n",
  "i", "p", "r", "o", "t", ".", "o", "r", "g", "/", "u", "n", "i", "p", "r",
  "o", "t", "k", "b", "/">>

\* "https://www.ncbi.nlm.nih.gov/nuccore/"
UrlNuccore ==
  <<"h", "t", "t", "p", "s", ":", "/", "/", "w", "w", "w", ".", "n", "c",
  "b", "i", ".", "n", "l", "m", ".", "n", "i", "h", ".", "g", "o", "v", "/",
  "n", "u", "c", "c", "o", "r", "e", "/">>

\* "https://www.ncbi.nlm.nih.gov/protein/"
UrlProtein ==
  <<"h", "t", "t", "p", "s", ":", "/", "/", "w", "w", "w", ".", "n", "c",
  "b", "i", ".", "n", "l", "m", ".", "n", "i", "h", ".", "g", "o", "v", "/",
  "p", "r", "o", "t", "e", "i", "n", "/">>

\* "https://www.ensembl.org/Homo_sapiens/Gene/Summary?g="
UrlEnsemblGene ==
  <<"h", "t", "t", "p", "s", ":", "/", "/", "w", "w", "w", ".", "e", "n",
  "s", "e", "m", "b", "l", ".", "o", "r", "g", "/", "H", "o", "m", "o", "_",
  "s", "a", "p", "i", "e", "n", "s", "/", "G", "e", "n", "e", "/", "S", "u",
  "m", "m", "a", "r", "y", "?", "g", "=">>

\* "HGNC:"
HgncPrefix == <<"H", "G", "N", "C", ":">>
\* "HGNC"
DbHgnc == <<"H", "G", "N", "C">>
\* "UniProtKB/Swiss-Prot"
DbSwissProt == <<"U", "n", "i", "P", "r", "o", "t", "K", "B", "/", "S", "w", "i", "s", "s", "-", "P", "r", "o", "t">>
\* "UniProtKB/TrEMBL"
DbTrembl == <<"U", "n", "i", "P", "r", "o", "t", "K", "B", "/", "T", "r", "E", "M", "B", "L">>
\* "EntrezGene"
DbEntrez == <<"E", "n", "t", "r", "e", "z", "G", "e", "n", "e">>
\* "RefSeq"
DbRefSeqPrefix == <<"R", "e", "f", "S", "e", "q">>
\* "mRNA"
MrnaHint == <<"m", "R", "N", "A">>

Row(type, ident, url) == [Type |-> type, Identifier |-> ident, URL |-> url]

RowKey(row) == <<row.Type, row.Identifier>>

\* vals[:n]
Take(s, n) == SubSeq(s, 1, IF Len(s) < n THEN Len(s) ELSE n)

\* the loop of _dedup_rows from row i on: the rows whose key is not in seen
\* are appended to out; hashing the key of a row whose Identifier is a list
\* or a dict raises TypeError
RECURSIVE DedupLoop(_, _, _, _)
DedupLoop(rs, i, seen, out) ==
  IF i > Len(rs) THEN L(out)
  ELSE IF ~Hashable(rs[i].Identifier) THEN Raise
  ELSE IF RowKey(rs[i]) \notin seen
       THEN DedupLoop(rs, i + 1, seen \cup {RowKey(rs[i])}, Append(out, rs[i]))
       ELSE DedupLoop(rs, i + 1, seen, out)

\* _dedup_rows comparing each row with the previously kept row only
RECURSIVE DedupAdjacentLoop(_, _, _)
DedupAdjacentLoop(rs, i, out) ==
  IF i > Len(rs) THEN L(out)
  ELSE IF ~Hashable(rs[i].Identifier) THEN Raise
  ELSE IF out # <<>> /\ RowKey(out[Len(out)]) = RowKey(rs[i])
       THEN DedupAdjacentLoop(rs, i + 1, out)
       ELSE DedupAdjacentLoop(rs, i + 1, Append(out, rs[i]))

DedupRowsAdjacent(rs) == DedupAdjacentLoop(rs, 1, <<>>)

\* _dedup_rows keeping the last occurrence of a key instead of the first
Reverse(xs) == [i \in 1..Len(xs) |-> xs[Len(xs) + 1 - i]]

DedupRowsKeepLast(rs) ==
  IF DedupLoop(Reverse(rs), 1, {}, <<>>) = Raise THEN Raise
  ELSE L(Reverse(DedupLoop(Reverse(rs), 1, {}, <<>>).v))

\* _dedup_rows(rows): L(the kept rows), or Raise
DedupRows(rs) == DedupLoop(rs, 1, {}, <<>>)

\* list(dict.fromkeys(xs)): first occurrences, in order (xs hashable)
RECURSIVE FromKeysLoop(_, _, _)
FromKeysLoop(xs, i, out) ==
  IF i > Len(xs) THEN out
  ELSE IF \E j \in 1..Len(out) : out[j] = xs[i]
       THEN FromKeysLoop(xs, i + 1, out)
       ELSE FromKeysLoop(xs, i + 1, Append(out, xs[i]))

\* the accessions taken as reported, repeats included
FromKeysKeepAll(xs) == xs

FromKeys(xs) == FromKeysLoop(xs, 1, <<>>)

(***************************************************************************)
(* HTTP replies.  kind: "neterr" (connection error), "timeout", "status"   *)
(* (non-2xx status), "badjson" (2xx, body does not parse), "ok" (2xx, body *)
(* parses to the Python value body).                                       *)
(***************************************************************************)
Failures == {[kind |-> "neterr"], [kind |-> "timeout"], [kind |-> "status"],
             [kind |-> "badjson"]}
Ok(body) == [kind |-> "ok", body |-> body]

\* _safe_get_json: the parsed body, None on any exception
SafeGetJson(resp) == IF resp.kind = "ok" THEN resp.body ELSE None

(***************************************************************************)
(* resolve_to_ensembl_gene: what each adapter block returns, Fall when it  *)
(* reaches no return statement (its exceptions are caught and passed)      *)
(***************************************************************************)
Identity(id, sym, name) == D([ensembl_gene_id |-> id, symbol |-> sym, name |-> name])

\* Direct Accession Lookup echoing the query as the accession
DirectOutcomeEchoQuery(qq, resp) ==
  IF resp.kind # "ok" THEN Fall
  ELSE IF resp.body.t # "dict" THEN Fall
  ELSE Identity(S(qq),
                GetD(resp.body, "display_name", EmptyStr),
                GetD(resp.body, "description", EmptyStr))

\* lines 41-55: Direct Accession Lookup
DirectOutcome(qq, resp) ==
  IF resp.kind # "ok" THEN Fall
  ELSE IF resp.body.t # "dict" THEN Fall
  ELSE Identity(GetD(resp.body, "id", S(qq)),
                GetD(resp.body, "display_name", EmptyStr),
                GetD(resp.body, "description", EmptyStr))

\* lines 78-81: the gene of the first item that is a dict with a truthy gene
RECURSIVE FirstGene(_, _)
FirstGene(items, i) ==
  IF i > Len(items) THEN None
  ELSE IF items[i].t = "dict" /\ Truthy(Get(items[i], "gene"))
       THEN Get(items[i], "gene")
       ELSE FirstGene(items, i + 1)

\* the accession read from the first entry of a list only
HitGeneFirstEntry(hit) ==
  LET ens_field == Get(hit, "ensembl") IN
    IF ens_field.t = "dict" THEN Get(ens_field, "gene")
    ELSE IF ens_field.t = "list" /\ ens_field.v # <<>>
         THEN (IF ens_field.v[1].t = "dict" THEN Get(ens_field.v[1], "gene") ELSE None)
    ELSE None

\* lines 72-81
HitGene(hit) ==
  LET ens_field == Get(hit, "ensembl") IN
    IF ens_field.t = "dict" THEN Get(ens_field, "gene")
    ELSE IF ens_field.t = "list" /\ ens_field.v # <<>> THEN FirstGene(ens_field.v, 1)
    ELSE None

\* Aggregator Search with the payload read outside the failure boundary
AggOutcomeUncaught(resp) ==
  IF resp.kind # "ok" THEN Fall
  ELSE LET j == PyOr(resp.body, EmptyDict) IN
    IF j.t # "dict" THEN Raise
    ELSE LET hits == GetD(j, "hits", L(<<>>)) IN
      IF ~Truthy(hits) THEN Fall
      ELSE IF hits.t # "list" THEN Raise
      ELSE LET hit == Index0(hits) IN
        IF hit.t # "dict" THEN Raise
        ELSE IF Truthy(HitGene(hit))
             THEN Identity(HitGene(hit), GetD(hit, "symbol", EmptyStr),
                           GetD(hit, "name", EmptyStr))
             ELSE Fall

\* lines 58-85: Aggregator Search
AggOutcome(resp) ==
  IF resp.kind # "ok" THEN Fall
  ELSE LET j == PyOr(resp.body, EmptyDict) IN
    IF j.t # "dict" THEN Fall
    ELSE LET hits == GetD(j, "hits", L(<<>>)) IN
      IF ~Truthy(hits) THEN Fall
      ELSE LET hit == Index0(hits) IN
        IF hit.t # "dict" THEN Fall
        ELSE IF Truthy(HitGene(hit))
             THEN Identity(HitGene(hit), GetD(hit, "symbol", EmptyStr),
                           GetD(hit, "name", EmptyStr))
             ELSE Fall

\* lines 88-102: Symbol Lookup
SymbolOutcome(qq, resp) ==
  IF resp.kind # "ok" THEN Fall
  ELSE IF resp.body.t # "dict" THEN Fall
  ELSE Identity(Get(resp.body, "id"),
                GetD(resp.body, "display_name", S(qq)),
                GetD(resp.body, "description", EmptyStr))

\* Symbol Lookup reserved for purely alphabetic queries
AfterAggregatorAlphaOnly(qq) == IF IsAlpha(qq) THEN "r_sym" ELSE "done"

\* lines 87-88: the block after Aggregator Search is entered for every query
AfterAggregator(qq) == "r_sym"

\* where resolve_to_ensembl_gene stands after a block: a block that reaches
\* no return statement passes control to next (line 105 returns None after
\* the last one), an exception leaving a block would leave the function
Landing(out, next) ==
  IF out = Fall THEN [pc |-> next, result |-> None]
  ELSE IF out = Raise THEN [pc |-> "raised", result |-> Raise]
  ELSE [pc |-> "done", result |-> out]

(***************************************************************************)
(* map_gene_ids: the locals are st = [rows, ensgs, symbol]; a block that   *)
(* raises yields Raise, which leaves map_gene_ids uncaught                 *)
(***************************************************************************)
\* [f(x) for x in xs]
RECURSIVE AppendAll(_, _)
AppendAll(rs, more) == IF more = <<>> THEN rs ELSE AppendAll(Append(rs, Head(more)), Tail(more))

\* number of RefSeq accessions harvested per kind from one aggregator hit
RefSeqCap == 20

\* number of protein-knowledgebase results harvested
UniprotCap == 5

SymbolRow(symbol) == Row("HGNC Symbol", symbol, UrlHgncSearch \o PyStr(symbol))
EnsemblRow(ensg) == Row("Ensembl Gene", ensg, UrlEnsemblGene \o PyStr(ensg))
UniprotRow(acc) == Row("UniProtKB", acc, UrlUniprot \o PyStr(acc))

\* the link of the Aggregator's row built from the number as reported
AggHgncRowsBareLink(hit) ==
  LET hgnc_id == Get(hit, "hgnc") IN
    IF Truthy(hgnc_id)
    THEN <<Row("HGNC ID", S(HgncPrefix \o PyStr(hgnc_id)),
               UrlHgncReport \o PyStr(hgnc_id))>>
    ELSE <<>>

\* lines 145-151
AggHgncRows(hit) ==
  LET hgnc_id == Get(hit, "hgnc") IN
    IF Truthy(hgnc_id)
    THEN <<Row("HGNC ID", S(HgncPrefix \o PyStr(hgnc_id)),
               UrlHgncReport \o HgncPrefix \o PyStr(hgnc_id))>>
    ELSE <<>>

\* lines 157-159: the truthy genes of the items that are dicts
RECURSIVE ListGenes(_, _)
ListGenes(items, i) ==
  IF i > Len(items) THEN <<>>
  ELSE IF items[i].t = "dict" /\ Truthy(Get(items[i], "gene"))
       THEN <<Get(items[i], "gene")>> \o ListGenes(items, i + 1)
       ELSE ListGenes(items, i + 1)

\* lines 153-159
AggGenes(hit) ==
  LET ens_field == Get(hit, "ensembl") IN
    IF ens_field.t = "dict" /\ Truthy(Get(ens_field, "gene")) THEN <<Get(ens_field, "gene")>>
    ELSE IF ens_field.t = "list" THEN ListGenes(ens_field.v, 1)
    ELSE <<>>

\* lines 161-167
AggEntrezRows(hit) ==
  LET entrez == Get(hit, "entrezgene") IN
    IF Truthy(entrez)
    THEN <<Row("NCBI Gene (Entrez)", S(PyStr(entrez)), UrlEntrez \o PyStr(entrez))>>
    ELSE <<>>

\* lines 169-176
AggUniprotRows(hit) ==
  LET usp == IF Get(hit, "uniprot").t = "dict" THEN Get(Get(hit, "uniprot"), "Swiss-Prot")
             ELSE None
      usp_list == IF usp.t = "list" THEN usp.v ELSE IF usp.t = "str" THEN <<usp>> ELSE <<>>
  IN [i \in 1..Len(usp_list) |-> UniprotRow(usp_list[i])]

\* every entry of a list harvested, however long the list
RefSeqRowsUncapped(kind, vals) ==
  LET base == IF kind = "RefSeq RNA" THEN UrlNuccore ELSE UrlProtein IN
    IF ~Truthy(vals) THEN <<>>
    ELSE IF vals.t = "list"
         THEN [i \in 1..Len(vals.v) |-> Row(kind, vals.v[i], base \o PyStr(vals.v[i]))]
    ELSE IF vals.t = "str" THEN <<Row(kind, vals, base \o PyStr(vals))>>
    ELSE <<>>

\* lines 179-192 for one (kind, vals)
RefSeqRows(kind, vals) ==
  LET base == IF kind = "RefSeq RNA" THEN UrlNuccore ELSE UrlProtein IN
    IF ~Truthy(vals) THEN <<>>
    ELSE IF vals.t = "list"
         THEN [i \in 1..Len(Take(vals.v, RefSeqCap)) |->
                 Row(kind, vals.v[i], base \o PyStr(vals.v[i]))]
    ELSE IF vals.t = "str" THEN <<Row(kind, vals, base \o PyStr(vals))>>
    ELSE <<>>

\* line 178: hit.get("refseq", {}).get(...) raises unless refseq is a dict
AggRefSeqRows(hit) ==
  LET refseq == GetD(hit, "refseq", EmptyDict) IN
    IF refseq.t # "dict" THEN Raise
    ELSE L(RefSeqRows("RefSeq RNA", Get(refseq, "rna"))
           \o RefSeqRows("RefSeq Protein", Get(refseq, "protein")))

\* the harvest of one hit with the Entrez row ahead of the HGNC ID row
HarvestHitEntrezFirst(hit, st) ==
  IF hit.t # "dict" THEN Raise
  ELSE IF AggRefSeqRows(hit) = Raise THEN Raise
  ELSE LET symbol == PyOr(Get(hit, "symbol"), st.symbol) IN
    [rows |-> AppendAll(st.rows,
                 (IF Truthy(symbol) THEN <<SymbolRow(symbol)>> ELSE <<>>)
                 \o AggEntrezRows(hit) \o AggHgncRows(hit)
                 \o AggUniprotRows(hit) \o AggRefSeqRows(hit).v),
     ensgs |-> st.ensgs \o AggGenes(hit),
     symbol |-> symbol]

\* lines 137-192: the harvest of one hit into the locals
HarvestHit(hit, st) ==
  IF hit.t # "dict" THEN Raise
  ELSE IF AggRefSeqRows(hit) = Raise THEN Raise
  ELSE LET symbol == PyOr(Get(hit, "symbol"), st.symbol) IN
    [rows |-> AppendAll(st.rows,
                 (IF Truthy(symbol) THEN <<SymbolRow(symbol)>> ELSE <<>>)
                 \o AggHgncRows(hit) \o AggEntrezRows(hit)
                 \o AggUniprotRows(hit) \o AggRefSeqRows(hit).v),
     ensgs |-> st.ensgs \o AggGenes(hit),
     symbol |-> symbol]

\* lines 134-192: step 1 on the value mg that _safe_get_json returned
HarvestAggregator(mg, st) ==
  IF mg.t # "dict" THEN st
  ELSE LET hits == GetD(mg, "hits", L(<<>>)) IN
    IF ~Truthy(hits) THEN st
    ELSE IF Index0(hits) = Raise THEN Raise
    ELSE HarvestHit(Index0(hits), st)

\* lines 200-201 and 209-210: the accession a Symbol Lookup reply adds
HarvestSymbolLookup(ens, st) ==
  IF ens.t = "dict" /\ Truthy(Get(ens, "id"))
  THEN [st EXCEPT !.ensgs = Append(@, Get(ens, "id"))]
  ELSE st

\* the rows of one entry with only the Swiss-Prot tag mapped to UniProtKB
XrefRowsSwissProtOnly(x) ==
  IF x.t # "dict" THEN Raise
  ELSE LET db == Get(x, "dbname")
           xid == PyOr(Get(x, "primary_id"), Get(x, "display_id"))
           desc == PyOr(Get(x, "description"), EmptyStr)
       IN
    IF ~Truthy(xid) THEN L(<<>>)
    ELSE IF db = S(DbHgnc)
         THEN IF xid.t # "str" THEN Raise
              ELSE LET hid == IF StartsWith(xid.v, HgncPrefix) THEN xid.v
                              ELSE HgncPrefix \o xid.v
                   IN L(<<Row("HGNC ID", S(hid), UrlHgncReport \o hid)>>)
    ELSE IF ~Hashable(db) THEN Raise
    ELSE IF db = S(DbSwissProt) THEN L(<<UniprotRow(xid)>>)
    ELSE IF db = S(DbEntrez)
         THEN L(<<Row("NCBI Gene (Entrez)", xid, UrlEntrez \o PyStr(xid))>>)
    ELSE IF db.t # "str" THEN Raise
    ELSE IF StartsWith(db.v, DbRefSeqPrefix)
         THEN IF desc.t # "str" THEN Raise
              ELSE L(<<Row(IF Contains(Lower(desc.v), MrnaHint) THEN "RefSeq RNA"
                               ELSE "RefSeq",
                           xid, UrlNuccore \o PyStr(xid))>>)
    ELSE L(<<>>)

\* the prefix put before every nomenclature ID, prefixed or not
XrefRowsAlwaysPrefix(x) ==
  IF x.t # "dict" THEN Raise
  ELSE LET db == Get(x, "dbname")
           xid == PyOr(Get(x, "primary_id"), Get(x, "display_id"))
           desc == PyOr(Get(x, "description"), EmptyStr)
       IN
    IF ~Truthy(xid) THEN L(<<>>)
    ELSE IF db = S(DbHgnc)
         THEN IF xid.t # "str" THEN Raise
              ELSE LET hid == HgncPrefix \o xid.v
                   IN L(<<Row("HGNC ID", S(hid), UrlHgncReport \o hid)>>)
    ELSE IF ~Hashable(db) THEN Raise
    ELSE IF db \in {S(DbSwissProt), S(DbTrembl)} THEN L(<<UniprotRow(xid)>>)
    ELSE IF db = S(DbEntrez)
         THEN L(<<Row("NCBI Gene (Entrez)", xid, UrlEntrez \o PyStr(xid))>>)
    ELSE IF db.t # "str" THEN Raise
    ELSE IF StartsWith(db.v, DbRefSeqPrefix)
         THEN IF desc.t # "str" THEN Raise
              ELSE L(<<Row(IF Contains(Lower(desc.v), MrnaHint) THEN "RefSeq RNA"
                               ELSE "RefSeq",
                           xid, UrlNuccore \o PyStr(xid))>>)
    ELSE L(<<>>)

\* lines 226-254: L(the rows of one entry x), L(<<>>) when it is skipped
XrefRows(x) ==
  IF x.t # "dict" THEN Raise
  ELSE LET db == Get(x, "dbname")
           xid == PyOr(Get(x, "primary_id"), Get(x, "display_id"))
           desc == PyOr(Get(x, "description"), EmptyStr)
       IN
    IF ~Truthy(xid) THEN L(<<>>)
    ELSE IF db = S(DbHgnc)
         THEN IF xid.t # "str" THEN Raise
              ELSE LET hid == IF StartsWith(xid.v, HgncPrefix) THEN xid.v
                              ELSE HgncPrefix \o xid.v
                   IN L(<<Row("HGNC ID", S(hid), UrlHgncReport \o hid)>>)
    ELSE IF ~Hashable(db) THEN Raise
    ELSE IF db \in {S(DbSwissProt), S(DbTrembl)} THEN L(<<UniprotRow(xid)>>)
    ELSE IF db = S(DbEntrez)
         THEN L(<<Row("NCBI Gene (Entrez)", xid, UrlEntrez \o PyStr(xid))>>)
    ELSE IF db.t # "str" THEN Raise
    ELSE IF StartsWith(db.v, DbRefSeqPrefix)
         THEN IF desc.t # "str" THEN Raise
              ELSE L(<<Row(IF Contains(Lower(desc.v), MrnaHint) THEN "RefSeq RNA"
                               ELSE "RefSeq",
                           xid, UrlNuccore \o PyStr(xid))>>)
    ELSE L(<<>>)

\* lines 225-254: the loop over the entries from entry i on
RECURSIVE XrefLoop(_, _, _)
XrefLoop(xs, i, rs) ==
  IF i > Len(xs) THEN L(rs)
  ELSE IF XrefRows(xs[i]) = Raise THEN Raise
  ELSE XrefLoop(xs, i + 1, AppendAll(rs, XrefRows(xs[i]).v))

\* HarvestXrefs without the isinstance(xrefs, list) guard: iterating None raises
HarvestXrefsUnguarded(xrefs, st) ==
  IF xrefs.t # "list" THEN Raise
  ELSE IF XrefLoop(xrefs.v, 1, st.rows) = Raise THEN Raise
  ELSE [st EXCEPT !.rows = XrefLoop(xrefs.v, 1, st.rows).v]

\* lines 224-254: one Cross-Reference Expansion reply
HarvestXrefs(xrefs, st) ==
  IF xrefs.t # "list" THEN st
  ELSE IF XrefLoop(xrefs.v, 1, st.rows) = Raise THEN Raise
  ELSE [st EXCEPT !.rows = XrefLoop(xrefs.v, 1, st.rows).v]

\* lines 262-278: one Nomenclature Registry Search reply
HarvestHgnc(hgnc, st) ==
  IF hgnc.t # "dict" THEN st
  ELSE LET response == PyOr(Get(hgnc, "response"), EmptyDict) IN
    IF response.t # "dict" THEN Raise
    ELSE LET docs == GetD(response, "docs", L(<<>>)) IN
      IF ~Truthy(docs) THEN st
      ELSE IF Index0(docs).t # "dict" THEN Raise
      ELSE LET doc == Index0(docs)
               symbol == PyOr(st.symbol, Get(doc, "symbol"))
           IN [rows |-> AppendAll(st.rows,
                          (IF Truthy(symbol) THEN <<SymbolRow(symbol)>> ELSE <<>>)
                          \o (IF Truthy(Get(doc, "hgnc_id"))
                              THEN <<Row("HGNC ID", Get(doc, "hgnc_id"),
                                         UrlHgncReport \o PyStr(Get(doc, "hgnc_id")))>>
                              ELSE <<>>)),
               ensgs |-> st.ensgs,
               symbol |-> symbol]

\* lines 288-295: the loop over the results from result i on
RECURSIVE UniprotLoop(_, _, _)
UniprotLoop(results, i, rs) ==
  IF i > Len(results) THEN L(rs)
  ELSE IF results[i].t # "dict" THEN Raise
  ELSE IF Truthy(Get(results[i], "primaryAccession"))
       THEN UniprotLoop(results, i + 1,
                        Append(rs, UniprotRow(Get(results[i], "primaryAccession"))))
       ELSE UniprotLoop(results, i + 1, rs)

\* one Protein-Knowledgebase Search reply harvested whole, without the cap
HarvestUniprotUncapped(uni, st) ==
  IF uni.t # "dict" THEN st
  ELSE LET results == GetD(uni, "results", L(<<>>)) IN
    IF results = EmptyStr THEN st
    ELSE IF results.t # "list" THEN Raise
    ELSE IF UniprotLoop(results.v, 1, st.rows) = Raise THEN Raise
    ELSE [st EXCEPT !.rows = UniprotLoop(results.v, 1, st.rows).v]

\* lines 287-295: one Protein-Knowledgebase Search reply; slicing raises on
\* anything but a sequence, and the characters of a str have no get
HarvestUniprot(uni, st) ==
  IF uni.t # "dict" THEN st
  ELSE LET results == GetD(uni, "results", L(<<>>)) IN
    IF results = EmptyStr THEN st
    ELSE IF results.t # "list" THEN Raise
    ELSE IF UniprotLoop(Take(results.v, UniprotCap), 1, st.rows) = Raise THEN Raise
    ELSE [st EXCEPT !.rows = UniprotLoop(Take(results.v, UniprotCap), 1, st.rows).v]

\* line 281
HaveUniprot(rs) == \E i \in 1..Len(rs) : rs[i].Type = "UniProtKB"

(***************************************************************************)
(* Control flow of map_gene_ids between two adapter calls.  A frame is the *)
(* position reached (the next adapter call, the return, or the uncaught    *)
(* exception) with the locals at that position.                            *)
(***************************************************************************)
Frame(pc, st, idx, result) ==
  [pc |-> pc, rows |-> st.rows, ensgs |-> st.ensgs, symbol |-> st.symbol,
   idx |-> idx, result |-> result]

NoLocals == [rows |-> <<>>, ensgs |-> <<>>, symbol |-> None]

RaisedFrame == Frame("raised", NoLocals, 0, Raise)

\* line 297: return _dedup_rows(rows)
Finish(st) ==
  IF DedupRows(st.rows) = Raise THEN RaisedFrame
  ELSE Frame("done", st, 0, DedupRows(st.rows))

\* lines 281-282: step 6 is taken iff a symbol is known and no UniProtKB row exists
AfterStep5(qq, st) ==
  IF Truthy(st.symbol) /\ ~HaveUniprot(st.rows) THEN Frame("m_uni", st, 0, None)
  ELSE Finish(st)

\* step 5 taken for every query while no symbol is known
AfterStep4AnyQuery(qq, st) ==
  IF ~Truthy(st.symbol) THEN Frame("m_hgnc", st, 0, None)
  ELSE AfterStep5(qq, st)

\* line 257: step 5 is taken iff no symbol is known and q is alphabetic
AfterStep4(qq, st) ==
  IF ~Truthy(st.symbol) /\ IsAlpha(qq) THEN Frame("m_hgnc", st, 0, None)
  ELSE AfterStep5(qq, st)

\* the loop of step 4 left as soon as the buffer holds a protein accession
EnterXrefUnlessComplete(qq, st, idx) ==
  IF idx <= Len(FromKeys(st.ensgs)) /\ ~HaveUniprot(st.rows)
  THEN Frame("m_xref", [st EXCEPT !.rows = Append(@, EnsemblRow(FromKeys(st.ensgs)[idx]))],
             idx, None)
  ELSE AfterStep4(qq, st)

\* lines 213-218 for the idx-th distinct accession: its row is appended, then
\* its expansion is requested; after the last one the loop is left
EnterXref(qq, st, idx) ==
  IF idx <= Len(FromKeys(st.ensgs))
  THEN Frame("m_xref", [st EXCEPT !.rows = Append(@, EnsemblRow(FromKeys(st.ensgs)[idx]))],
             idx, None)
  ELSE AfterStep4(qq, st)

\* step 3 issued again while it has found no accession
AfterStep3LookupAgain(qq, st) ==
  IF st.ensgs = <<>> /\ IsAlpha(qq) THEN Frame("m_sym3", st, 0, None)
  ELSE IF \E i \in 1..Len(st.ensgs) : ~Hashable(st.ensgs[i]) THEN RaisedFrame
  ELSE EnterXref(qq, st, 1)

\* line 213: dict.fromkeys(ensgs) hashes every accession
AfterStep3(qq, st) ==
  IF \E i \in 1..Len(st.ensgs) : ~Hashable(st.ensgs[i]) THEN RaisedFrame
  ELSE EnterXref(qq, st, 1)

\* step 3 taken for every query while no accession is known
AfterStep2AnyQuery(qq, st) ==
  IF st.ensgs = <<>> THEN Frame("m_sym3", st, 0, None)
  ELSE AfterStep3(qq, st)

\* step 3 taken only while the buffer is still empty
AfterStep2UnlessHarvested(qq, st) ==
  IF st.ensgs = <<>> /\ IsAlpha(qq) /\ st.rows = <<>> THEN Frame("m_sym3", st, 0, None)
  ELSE AfterStep3(qq, st)

\* line 204: step 3 is taken iff no accession is known and q is alphabetic
AfterStep2(qq, st) ==
  IF st.ensgs = <<>> /\ IsAlpha(qq) THEN Frame("m_sym3", st, 0, None)
  ELSE AfterStep3(qq, st)

\* step 2 taken whenever a symbol is known
AfterStep1SymbolAlways(qq, st) ==
  IF Truthy(st.symbol) THEN Frame("m_sym2", st, 0, None)
  ELSE AfterStep2(qq, st)

\* line 195: step 2 is taken iff no accession is known and a symbol is
AfterStep1(qq, st) ==
  IF st.ensgs = <<>> /\ Truthy(st.symbol) THEN Frame("m_sym2", st, 0, None)
  ELSE AfterStep2(qq, st)

(***************************************************************************)
(* The replies the services may give                                       *)
(***************************************************************************)
\* longest Cross-Reference Expansion list built from XrefEntries
MaxXrefs == 2

BoundedSeq(Elems, n) == UNION {[1..k -> Elems] : k \in 0..n}

E1 == <<"E", "N", "S", "G", "0", "0", "0", "0", "0", "1">>
E2 == <<"E", "N", "S", "G", "0", "0", "0", "0", "0", "2">>
TP == <<"T", "P">>
TQ == <<"T", "Q">>
Desc == <<"p", "5", "3">>
P1 == <<"P", "1">>
P2 == <<"P", "2">>
NM1 == <<"N", "M", "1">>
NP1 == <<"N", "P", "1">>

\* the queries a caller passes
Queries ==
  {None, EmptyStr, S(<<" ", "\t">>), S(TP), S(<<"T", "P", "5", "3">>), S(E1),
   S(<<" ">> \o E1 \o <<"\n">>),
   S(<<"e", "n", "s", "g", "0", "0", "0", "0", "0", "1">>),
   S(<<"E", "N", "S", "G", "0", "0", "0", "0", "1">>)}

\* the queries a caller passes to resolve_to_ensembl_gene: those above and
\* near misses of the accession pattern (another prefix, a character after
\* the digits, a character before the prefix, a blank inside)
ResolveQueries ==
  Queries \cup
  {S(<<"E", "N", "S", "T", "0", "0", "0", "0", "0", "1">>),
   S(E1 \o <<"A">>),
   S(<<"X">> \o E1),
   S(<<"E", "N", "S", "G", " ", "0", "0", "0", "0", "0", "1">>)}

\* bodies of Direct Accession Lookup and Symbol Lookup
LookupBodies ==
  {D([id |-> S(E1), display_name |-> S(TP), description |-> S(Desc)]),
   D([id |-> S(E2), display_name |-> S(TQ)]),
   D([id |-> S(E1)]),
   D([display_name |-> S(TP)]),
   D([id |-> None, display_name |-> S(TP)]),
   EmptyDict, L(<<>>), None}

LookupReplies == Failures \cup {Ok(b) : b \in LookupBodies}

\* RefSeq lists one entry longer than the cap: NM1 .. NM21 and NP1 .. NP21
ManyRna == [i \in 1..(RefSeqCap + 1) |-> S(<<"N", "M">> \o NatToStr(i))]

ManyProtein == [i \in 1..(RefSeqCap + 1) |-> S(<<"N", "P">> \o NatToStr(i))]

Hits ==
  {D([symbol |-> S(TP), name |-> S(Desc), hgnc |-> N(11), ensembl |-> D([gene |-> S(E1)]),
      entrezgene |-> N(7), uniprot |-> D("Swiss-Prot" :> S(P1)),
      refseq |-> D([rna |-> L(<<S(NM1)>>), protein |-> S(NP1)])]),
   D([symbol |-> S(TP), ensembl |-> D([gene |-> S(E1)]), entrezgene |-> S(<<"7">>)]),
   D([symbol |-> S(TP)]),
   D([symbol |-> S(TP), uniprot |-> D("Swiss-Prot" :> L(<<S(P1), S(P1)>>)),
      ensembl |-> L(<<EmptyDict, D([gene |-> S(E1)]), D([gene |-> S(E2)]),
                       D([gene |-> S(E1)])>>)]),
   D([ensembl |-> D([gene |-> S(E2)])]),
   D([entrezgene |-> N(7), ensembl |-> L(<<>>)]),
   D([symbol |-> S(TP), refseq |-> S(NM1)]),
   D([symbol |-> S(TP), uniprot |-> S(P1)]),
   D([symbol |-> S(TP), uniprot |-> D("Swiss-Prot" :> L(<<EmptyDict>>))]),
   D([ensembl |-> D([gene |-> L(<<S(E1)>>)])]),
   D([refseq |-> D([rna |-> L(ManyRna), protein |-> L(ManyProtein)])]),
   S(TP)}

AggBodies ==
  {None, EmptyDict, L(<<N(1)>>), D([hits |-> L(<<>>)]), D([hits |-> N(1)])}
  \cup {D([hits |-> L(<<h>>)]) : h \in Hits}

AggReplies == Failures \cup {Ok(b) : b \in AggBodies}

\* entries of a Cross-Reference Expansion list, combined in every order
XrefEntries ==
  {D([dbname |-> S(DbHgnc), primary_id |-> S(HgncPrefix \o <<"1", "1">>)]),
   D([dbname |-> S(DbHgnc), primary_id |-> S(<<"1", "1">>)]),
   D([dbname |-> S(DbSwissProt), primary_id |-> S(P1)]),
   D([dbname |-> S(DbRefSeqPrefix \o <<"_", "m", "R", "N", "A">>), primary_id |-> S(NM1),
      description |-> S(MrnaHint)])}

\* entries that occur alone in a list
OddXrefEntries ==
  {D([dbname |-> S(DbEntrez), primary_id |-> S(<<"7">>)]),
   D([dbname |-> S(<<"M", "I", "M">>), primary_id |-> S(<<"9">>)]),
   D([primary_id |-> S(P1)]),
   D([dbname |-> S(DbHgnc), primary_id |-> N(11)]),
   D([dbname |-> S(DbHgnc)]),
   D([dbname |-> S(DbTrembl), display_id |-> S(P2)]),
   D([dbname |-> S(DbRefSeqPrefix \o <<"_", "p", "e", "p", "t", "i", "d", "e">>),
      primary_id |-> S(NP1), description |-> S(<<"p", "r", "o", "t", "e", "i", "n">>)]),
   D([dbname |-> L(<<>>), primary_id |-> S(P1)]),
   S(P1)}

XrefBodies ==
  {None, EmptyDict}
  \cup {L(xs) : xs \in BoundedSeq(XrefEntries, MaxXrefs)}
  \cup {L(<<x>>) : x \in OddXrefEntries}

XrefReplies == Failures \cup {Ok(b) : b \in XrefBodies}

HgncBodies ==
  {None, EmptyDict, D([response |-> D([docs |-> L(<<>>)])]),
   D([response |-> D([docs |-> L(<<D([symbol |-> S(TP),
                                      hgnc_id |-> S(HgncPrefix \o <<"1", "1">>)])>>)])]),
   D([response |-> D([docs |-> L(<<D([symbol |-> S(TP)])>>)])]),
   D([response |-> D([docs |-> L(<<D([hgnc_id |-> S(HgncPrefix \o <<"1", "1">>)])>>)])]),
   D([response |-> L(<<N(1)>>)])}

HgncReplies == Failures \cup {Ok(b) : b \in HgncBodies}

Acc(chars) == D([primaryAccession |-> S(chars)])

UniprotBodies ==
  {None, EmptyDict, D([results |-> L(<<>>)]), D([results |-> None]),
   D([results |-> L(<<Acc(P1)>>)]),
   D([results |-> L(<<Acc(P1), EmptyDict, Acc(P1), Acc(P2)>>)]),
   D([results |-> L(<<Acc(P1), Acc(P2), Acc(<<"P", "3">>), Acc(<<"P", "4">>),
                      Acc(<<"P", "5">>), Acc(<<"P", "6">>)>>)])}

UniprotReplies == Failures \cup {Ok(b) : b \in UniprotBodies}

(***************************************************************************)
(* State: one call at a time.  op is the operation called, query its       *)
(* argument, q the stripped query, pc the adapter call it is about to issue ("idle" between calls,  *)
(* "done" at its return statement, "raised" when an exception left it),    *)
(* rows/ensgs/symbol/idx the locals of map_gene_ids (idx numbers the       *)
(* accession being expanded), result the returned value, and trace the     *)
(* adapter calls issued so far with the reply each received.               *)
(***************************************************************************)
VARIABLES op, query, q, pc, rows, ensgs, symbol, idx, result, trace, parked, retry

vars == <<op, query, q, pc, rows, ensgs, symbol, idx, result, trace, parked, retry>>

Locals == [rows |-> rows, ensgs |-> ensgs, symbol |-> symbol]

Called(adapter, arg, resp) == [adapter |-> adapter, arg |-> arg, resp |-> resp]

\* an invocation is the call's arguments, position, locals, result and the
\* adapter calls it made; this is the one of a caller that has not called
NotCalled ==
  [op |-> "none", query |-> None, q |-> <<>>, pc |-> "idle", rows |-> <<>>,
   ensgs |-> <<>>, symbol |-> None, idx |-> 0, result |-> None, trace |-> <<>>]

\* apis.py line 126: safe_api_call before it is called: pc is its position,
\* attempt the loop variable, log what it did so far (the outcome of every
\* invocation of func and every sleep), result what it returned
NotRetrying == [pc |-> "idle", attempt |-> 0, log |-> <<>>, result |-> None]

Init ==
  /\ op = "none"
  /\ query = None
  /\ q = <<>>
  /\ pc = "idle"
  /\ rows = <<>>
  /\ ensgs = <<>>
  /\ symbol = None
  /\ idx = 0
  /\ result = None
  /\ trace = <<>>
  /\ parked = NotCalled
  /\ retry = NotRetrying

\* the locals, position and result of map_gene_ids become those of frame f
Goto(f) ==
  /\ pc' = f.pc
  /\ rows' = f.rows
  /\ ensgs' = f.ensgs
  /\ symbol' = f.symbol
  /\ idx' = f.idx
  /\ result' = f.result

\* lines 35-40: resolve_to_ensembl_gene(query) up to its first adapter call
CallResolve ==
  \E arg \in ResolveQueries :
    /\ pc = "idle"
    /\ op' = "resolve"
    /\ query' = arg
    /\ q' = Normalize(arg)
    /\ pc' = IF Normalize(arg) = <<>> THEN "done"
             ELSE IF IsAccession(Normalize(arg)) THEN "r_direct"
             ELSE "r_agg"
    /\ result' = None
    /\ trace' = <<>>
    /\ UNCHANGED <<rows, ensgs, symbol, idx>>
    /\ UNCHANGED <<parked, retry>>

\* lines 41-55
ResolveDirect ==
  \E resp \in LookupReplies :
    /\ pc = "r_direct"
    /\ trace' = Append(trace, Called("DirectAccessionLookup", q, resp))
    /\ pc' = Landing(DirectOutcome(q, resp), "r_agg").pc
    /\ result' = Landing(DirectOutcome(q, resp), "r_agg").result
    /\ UNCHANGED <<op, query, q, rows, ensgs, symbol, idx>>
    /\ UNCHANGED <<parked, retry>>

\* lines 58-85
ResolveAggregator ==
  \E resp \in AggReplies :
    /\ pc = "r_agg"
    /\ trace' = Append(trace, Called("AggregatorSearch", q, resp))
    /\ pc' = Landing(AggOutcome(resp), AfterAggregator(q)).pc
    /\ result' = Landing(AggOutcome(resp), AfterAggregator(q)).result
    /\ UNCHANGED <<op, query, q, rows, ensgs, symbol, idx>>
    /\ UNCHANGED <<parked, retry>>

\* lines 88-105
ResolveSymbol ==
  \E resp \in LookupReplies :
    /\ pc = "r_sym"
    /\ trace' = Append(trace, Called("SymbolLookup", q, resp))
    /\ pc' = Landing(SymbolOutcome(q, resp), "done").pc
    /\ result' = Landing(SymbolOutcome(q, resp), "done").result
    /\ UNCHANGED <<op, query, q, rows, ensgs, symbol, idx>>
    /\ UNCHANGED <<parked, retry>>

\* lines 116-122: map_gene_ids(query) up to its first adapter call
CallMap ==
  \E arg \in Queries :
    /\ pc = "idle"
    /\ op' = "map"
    /\ query' = arg
    /\ q' = Normalize(arg)
    /\ IF Normalize(arg) = <<>>
       THEN Goto(Frame("done", NoLocals, 0, L(<<>>)))
       ELSE Goto(Frame("m_agg", NoLocals, 0, None))
    /\ trace' = <<>>
    /\ UNCHANGED <<parked, retry>>

\* lines 125-192, then the guards up to the next adapter call
MapAggregator ==
  \E resp \in AggReplies :
    /\ pc = "m_agg"
    /\ trace' = Append(trace, Called("AggregatorSearch", q, resp))
    /\ IF HarvestAggregator(SafeGetJson(resp), Locals) = Raise THEN Goto(RaisedFrame)
       ELSE Goto(AfterStep1(q, HarvestAggregator(SafeGetJson(resp), Locals)))
    /\ UNCHANGED <<op, query, q>>
    /\ UNCHANGED <<parked, retry>>

\* lines 196-201 (step 2), then the guards up to the next adapter call
MapSymbolLookup ==
  \E resp \in LookupReplies :
    /\ pc = "m_sym2"
    /\ trace' = Append(trace, Called("SymbolLookup", PyStr(symbol), resp))
    /\ IF HarvestSymbolLookup(SafeGetJson(resp), Locals) = Raise THEN Goto(RaisedFrame)
       ELSE Goto(AfterStep2(q, HarvestSymbolLookup(SafeGetJson(resp), Locals)))
    /\ UNCHANGED <<op, query, q>>
    /\ UNCHANGED <<parked, retry>>

\* lines 205-210 (step 3), then the guards up to the next adapter call
MapSymbolLookupRaw ==
  \E resp \in LookupReplies :
    /\ pc = "m_sym3"
    /\ trace' = Append(trace, Called("SymbolLookup", q, resp))
    /\ IF HarvestSymbolLookup(SafeGetJson(resp), Locals) = Raise THEN Goto(RaisedFrame)
       ELSE Goto(AfterStep3(q, HarvestSymbolLookup(SafeGetJson(resp), Locals)))
    /\ UNCHANGED <<op, query, q>>
    /\ UNCHANGED <<parked, retry>>

\* lines 220-254 for the idx-th accession, then the next loop round or the
\* guards after the loop
MapXrefs ==
  \E resp \in XrefReplies :
    /\ pc = "m_xref"
    /\ trace' = Append(trace, Called("CrossReferenceExpansion",
                                     PyStr(FromKeys(ensgs)[idx]), resp))
    /\ IF HarvestXrefs(SafeGetJson(resp), Locals) = Raise THEN Goto(RaisedFrame)
       ELSE Goto(EnterXref(q, HarvestXrefs(SafeGetJson(resp), Locals), idx + 1))
    /\ UNCHANGED <<op, query, q>>
    /\ UNCHANGED <<parked, retry>>

\* lines 258-278 (step 5), then the guard of step 6
MapHgnc ==
  \E resp \in HgncReplies :
    /\ pc = "m_hgnc"
    /\ trace' = Append(trace, Called("NomenclatureRegistrySearch", q, resp))
    /\ IF HarvestHgnc(SafeGetJson(resp), Locals) = Raise THEN Goto(RaisedFrame)
       ELSE Goto(AfterStep5(q, HarvestHgnc(SafeGetJson(resp), Locals)))
    /\ UNCHANGED <<op, query, q>>
    /\ UNCHANGED <<parked, retry>>

\* lines 283-297 (step 6), then the return
MapUniprot ==
  \E resp \in UniprotReplies :
    /\ pc = "m_uni"
    /\ trace' = Append(trace, Called("ProteinKnowledgebaseSearch", PyStr(symbol), resp))
    /\ IF HarvestUniprot(SafeGetJson(resp), Locals) = Raise THEN Goto(RaisedFrame)
       ELSE Goto(Finish(HarvestUniprot(SafeGetJson(resp), Locals)))
    /\ UNCHANGED <<op, query, q>>
    /\ UNCHANGED <<parked, retry>>

\* the call is over (returned or raised): nothing of it is kept
Return ==
  /\ pc \in {"done", "raised"}
  /\ op' = "none"
  /\ query' = None
  /\ q' = <<>>
  /\ Goto(Frame("idle", NoLocals, 0, None))
  /\ trace' = <<>>
  /\ UNCHANGED <<parked, retry>>

Next ==
  \/ CallResolve
  \/ ResolveDirect
  \/ ResolveAggregator
  \/ ResolveSymbol
  \/ CallMap
  \/ MapAggregator
  \/ MapSymbolLookup
  \/ MapSymbolLookupRaw
  \/ MapXrefs
  \/ MapHgnc
  \/ MapUniprot
  \/ Return

Spec == Init /\ [][Next]_vars

TypeOK ==
  /\ op \in {"none", "resolve", "map"}
  /\ pc \in {"idle", "r_direct", "r_agg", "r_sym", "m_agg", "m_sym2", "m_sym3",
             "m_xref", "m_hgnc", "m_uni", "done", "raised"}
  /\ idx \in 0..Len(ensgs)

(***************************************************************************)
(* Properties                                                              *)
(***************************************************************************)
MapReturned == op = "map" /\ pc = "done"

ResolveReturned == op = "resolve" /\ pc = "done"

LastCall == trace[Len(trace)]

\* C1: the sequence map_gene_ids returns holds no two rows with the same
\* (Type, Identifier) pair, whatever the adapters replied
C1_NoDuplicateKeys ==
  MapReturned =>
    \A i, j \in 1..Len(result.v) :
      (result.v[i].Type = result.v[j].Type
       /\ result.v[i].Identifier = result.v[j].Identifier) => i = j

\* C1 witness: two different steps put the same identifier under the same
\* label into the buffer (aggregator and expansion, or two expansions), and
\* the call returned
C1_Witness ==
  /\ MapReturned
  /\ \E i, j \in 1..Len(rows) :
       /\ i < j
       /\ RowKey(rows[i]) = RowKey(rows[j])
       /\ rows[i].Type # "Ensembl Gene"
       /\ \E k \in (i + 1)..(j - 1) : rows[k].Type = "Ensembl Gene"

\* the positions of the buffer whose key occurs at no earlier position
FirstSeen(buffer) ==
  {i \in 1..Len(buffer) : \A j \in 1..(i - 1) : RowKey(buffer[j]) # RowKey(buffer[i])}

\* C2: the returned sequence is the buffer of steps 1-6 restricted to the
\* first occurrence of every key, in buffer order, and every key of the
\* buffer is a key of the output
C2_FirstSeenOrder ==
  MapReturned =>
    /\ Len(result.v) = Cardinality(FirstSeen(rows))
    /\ LET first == FirstSeen(rows) IN
         \A i \in first : result.v[Cardinality({j \in first : j <= i})] = rows[i]
    /\ \A i \in 1..Len(rows) :
         \E k \in 1..Len(result.v) : RowKey(result.v[k]) = RowKey(rows[i])

\* C2 witness: a later step re-emitted a key and then emitted a new one, so
\* a removed row lies between two kept rows
C2_Witness ==
  /\ MapReturned
  /\ \E i \in 1..Len(rows) :
       /\ i \notin FirstSeen(rows)
       /\ \E j \in FirstSeen(rows) : j > i /\ rows[j].Type # rows[i].Type

FailedStep == op = "map" /\ Len(trace') = Len(trace) + 1 /\ trace'[Len(trace')].resp \in Failures

\* C3: in map_gene_ids an adapter call that ends in a network error, a
\* timeout, a non-success status or an unparseable body adds no row, no
\* accession and no symbol (the only row that may follow it is the Ensembl
\* Gene row with which the loop opens the next accession), the operation goes
\* on to a later step or to its return, and the failed call does not make it
\* raise: an exception can follow it only from the final de-duplication of a
\* buffer in which an earlier, successfully received reply left an unhashable
\* identifier
C3_TransportFailureContributesNothing ==
  [][FailedStep =>
       IF pc' = "raised" THEN \E i \in 1..Len(rows) : ~Hashable(rows[i].Identifier)
       ELSE /\ ensgs' = ensgs
            /\ symbol' = symbol
            /\ pc' \in {"m_sym2", "m_sym3", "m_xref", "m_hgnc", "m_uni", "done"}
            /\ rows' = IF pc' = "m_xref"
                       THEN Append(rows, EnsemblRow(FromKeys(ensgs)[idx']))
                       ELSE rows
            /\ pc' = "done" => result'.t = "list"]_vars

\* C3 witness: an expansion failed after the aggregator had supplied rows,
\* and the call still returned them
C3_Witness ==
  /\ MapReturned
  /\ Len(trace) >= 2
  /\ LastCall.resp \in Failures
  /\ LastCall.adapter = "CrossReferenceExpansion"
  /\ Len(result.v) >= 2

\* C4: map_gene_ids does not raise on well-formed JSON of an unexpected shape
\* (an expansion entry with an identifier but no dbname, a non-string
\* identifier, a refseq field that is not an object): it returns
C4_MalformedPayloadNeverRaises == op = "map" => pc # "raised"

\* C5: a result of resolve_to_ensembl_gene that is not absent carries a
\* non-empty ensembl_gene_id (a reply without an accession yields absent,
\* never a result whose ensembl_gene_id is None or empty)
C5_PrimaryIdNonEmpty ==
  (ResolveReturned /\ result # None) => Truthy(result.v.ensembl_gene_id)

\* a reply that carries no record: a failure, or a well-formed empty body
EmptyBodies ==
  {None, EmptyDict, L(<<>>), D([hits |-> L(<<>>)]), D([response |-> D([docs |-> L(<<>>)])]),
   D([results |-> L(<<>>)])}

EmptyReply(resp) == resp \in Failures \/ (resp.kind = "ok" /\ resp.body \in EmptyBodies)

AllEmpty == \A i \in 1..Len(trace) : EmptyReply(trace[i].resp)

\* C6: when every adapter called returned empty (a failure, or a well-formed
\* reply without a record), resolve_to_ensembl_gene returns absent and
\* map_gene_ids returns the empty sequence
C6_AllEmptyGivesNothing ==
  (pc \in {"done", "raised"} /\ AllEmpty) =>
    /\ pc = "done"
    /\ op = "resolve" => result = None
    /\ op = "map" => result = L(<<>>)

\* the argument is None, empty or made of whitespace only
IsBlank(arg) == arg = None \/ \A i \in 1..Len(arg.v) : arg.v[i] \in Whitespace

\* C7: on a None, empty or whitespace-only query both operations return at
\* once (absent, the empty sequence) and call no adapter
C7_BlankQueryCallsNothing ==
  (op # "none" /\ IsBlank(query)) =>
    /\ pc = "done"
    /\ trace = <<>>
    /\ op = "resolve" => result = None
    /\ op = "map" => result = L(<<>>)

\* C7 witness: map_gene_ids was called with a whitespace-only query
C7_Witness == op = "map" /\ query = S(<<" ", "\t">>) /\ pc = "done"

\* the accession pattern, letter by letter: ENSG in either case, then at
\* least six digits and nothing else
LooksLikeAccession(s) ==
  /\ Len(s) >= 10
  /\ s[1] \in {"E", "e"} /\ s[2] \in {"N", "n"} /\ s[3] \in {"S", "s"} /\ s[4] \in {"G", "g"}
  /\ \A i \in 5..Len(s) : s[i] \in Digits

\* C8: in resolve_to_ensembl_gene on a query matching the accession pattern,
\* the first adapter call is Direct Accession Lookup: it is the call about to
\* be issued while the trace is empty and the first entry of the trace after
C8_DirectLookupFirst ==
  (op = "resolve" /\ LooksLikeAccession(q)) =>
    IF trace = <<>> THEN pc = "r_direct"
    ELSE trace[1].adapter = "DirectAccessionLookup"

\* C8 witness: a lower-case accession was looked up directly, the lookup
\* failed and Aggregator Search was called second
C8_Witness ==
  /\ op = "resolve"
  /\ query = S(<<"e", "n", "s", "g", "0", "0", "0", "0", "0", "1">>)
  /\ Len(trace) = 2
  /\ trace[2].adapter = "AggregatorSearch"

\* Direct Accession Lookup replied with a record: a JSON object with an id
IsRecord(resp) == resp.kind = "ok" /\ resp.body.t = "dict" /\ Truthy(Get(resp.body, "id"))

\* C9: when Direct Accession Lookup returns a record for a query matching the
\* accession pattern, resolve_to_ensembl_gene returns that record's id,
\* display_name and description (the empty string for a name or description
\* the record lacks) and calls neither Aggregator Search nor Symbol Lookup
C9_DirectRecordShortCircuits ==
  (/\ ResolveReturned
   /\ LooksLikeAccession(q)
   /\ trace[1].adapter = "DirectAccessionLookup"
   /\ IsRecord(trace[1].resp)) =>
    /\ Len(trace) = 1
    /\ result = Identity(trace[1].resp.body.v.id,
                         GetD(trace[1].resp.body, "display_name", EmptyStr),
                         GetD(trace[1].resp.body, "description", EmptyStr))

\* C9 witness: a lower-case accession was asked for and the record came back
\* whole, with the accession as the service spells it
C9_Witness ==
  /\ ResolveReturned
  /\ q = <<"e", "n", "s", "g", "0", "0", "0", "0", "0", "1">>
  /\ result = Identity(S(E1), S(TP), S(Desc))

\* the accession a reply yields to resolve_to_ensembl_gene, None if none
Yielded(call) ==
  IF call.resp.kind # "ok" THEN None
  ELSE IF call.adapter = "AggregatorSearch"
       THEN IF AggOutcome(call.resp) = Fall THEN None
            ELSE AggOutcome(call.resp).v.ensembl_gene_id
  ELSE IF call.resp.body.t = "dict" THEN Get(call.resp.body, "id")
  ELSE None

ResolveOrder == <<"DirectAccessionLookup", "AggregatorSearch", "SymbolLookup">>

Position(adapter) == CHOOSE i \in 1..3 : ResolveOrder[i] = adapter

\* C10: resolve_to_ensembl_gene calls the adapters in the order Direct
\* Accession Lookup, Aggregator Search, Symbol Lookup, calls none after one
\* that yielded a non-empty accession, and returns the answer of that adapter
\* alone (absent when none yielded one)
C10_FirstYieldingAdapterWins ==
  ResolveReturned =>
    /\ \A i, j \in 1..Len(trace) :
         i < j => Position(trace[i].adapter) < Position(trace[j].adapter)
    /\ \A i \in 1..(Len(trace) - 1) : ~Truthy(Yielded(trace[i]))
    /\ IF trace # <<>> /\ Truthy(Yielded(LastCall))
       THEN /\ result # None
            /\ result.v.ensembl_gene_id = Yielded(LastCall)
       ELSE result = None

\* C11 as stated: in resolve_to_ensembl_gene a query that is not purely
\* alphabetic never reaches Symbol Lookup: once Aggregator Search, the last
\* adapter left to it, has yielded no accession the operation has returned
\* and the result is absent
C11_SymbolLookupOnlyForAlphabetic ==
  (op = "resolve" /\ ~IsAlpha(q)) =>
    /\ \A i \in 1..Len(trace) : trace[i].adapter # "SymbolLookup"
    /\ (/\ trace # <<>>
        /\ LastCall.adapter = "AggregatorSearch"
        /\ AggOutcome(LastCall.resp) = Fall) => (pc = "done" /\ result = None)

\* C11 amended: in resolve_to_ensembl_gene Symbol Lookup is the call that
\* follows every Aggregator Search that returned nothing, whatever characters
\* the stripped query holds, and it is issued with the stripped query; a
\* non-empty query is answered absent only after Symbol Lookup was called
\* and returned no JSON object
C11_SymbolLookupWhateverTheQuery ==
  (op = "resolve" /\ q # <<>>) =>
    /\ \A i \in 1..Len(trace) :
         (trace[i].adapter = "AggregatorSearch" /\ AggOutcome(trace[i].resp) = Fall) =>
           IF i = Len(trace) THEN pc = "r_sym"
           ELSE trace[i + 1].adapter = "SymbolLookup" /\ trace[i + 1].arg = q
    /\ (pc = "done" /\ result = None) =>
         /\ trace # <<>>
         /\ LastCall.adapter = "SymbolLookup"
         /\ ~(LastCall.resp.kind = "ok" /\ LastCall.resp.body.t = "dict")

\* C11 witness: the symbol TP53, which holds digits, missed in Aggregator
\* Search and was resolved by Symbol Lookup
C11_Witness ==
  /\ ResolveReturned
  /\ q = <<"T", "P", "5", "3">>
  /\ Len(trace) = 2
  /\ LastCall.adapter = "SymbolLookup"
  /\ result = Identity(S(E1), S(TP), S(Desc))

\* a call that ended in a transport failure, or whose payload is not what
\* the adapter documents: not a JSON object, or for Aggregator Search an
\* object whose hits are not a list or whose first hit is not an object
Malformed(call) ==
  \/ call.resp \in Failures
  \/ call.resp.body.t # "dict"
  \/ /\ call.adapter = "AggregatorSearch"
     /\ "hits" \in DOMAIN call.resp.body.v
     /\ \/ call.resp.body.v.hits.t # "list"
        \/ /\ call.resp.body.v.hits.v # <<>>
           /\ call.resp.body.v.hits.v[1].t # "dict"

\* C12: resolve_to_ensembl_gene never raises on an adapter failure; every
\* adapter has its own failure boundary: after a failed or malformed Direct
\* Accession Lookup the next call is Aggregator Search, after a failed or
\* malformed Aggregator Search it is Symbol Lookup, and after a failed or
\* malformed Symbol Lookup the operation returns absent
C12_ResolveIsolatesEachAdapter ==
  op = "resolve" =>
    /\ pc # "raised"
    /\ result # Raise
    /\ \A i \in 1..Len(trace) :
         Malformed(trace[i]) =>
           IF trace[i].adapter = "DirectAccessionLookup"
           THEN IF i = Len(trace) THEN pc = "r_agg"
                ELSE trace[i + 1].adapter = "AggregatorSearch"
           ELSE IF trace[i].adapter = "AggregatorSearch"
           THEN IF i = Len(trace) THEN pc = "r_sym"
                ELSE trace[i + 1].adapter = "SymbolLookup"
           ELSE i = Len(trace) /\ pc = "done" /\ result = None

\* C12 witness: Direct Accession Lookup timed out, Aggregator Search sent
\* hits that are a number, Symbol Lookup sent a list, and absent came back
C12_Witness ==
  /\ ResolveReturned
  /\ Len(trace) = 3
  /\ trace[1].adapter = "DirectAccessionLookup"
  /\ trace[1].resp = [kind |-> "timeout"]
  /\ trace[2].resp = Ok(D([hits |-> N(1)]))
  /\ trace[3].adapter = "SymbolLookup"
  /\ trace[3].resp = Ok(L(<<>>))
  /\ result = None

\* the first hit of an Aggregator Search reply, None when it has none
FirstHit(resp) ==
  IF /\ resp.kind = "ok"
     /\ resp.body.t = "dict"
     /\ "hits" \in DOMAIN resp.body.v
     /\ resp.body.v.hits.t = "list"
     /\ resp.body.v.hits.v # <<>>
     /\ resp.body.v.hits.v[1].t = "dict"
  THEN resp.body.v.hits.v[1]
  ELSE None

Times(label, n) == [i \in 1..n |-> label]

\* how many identifiers a field of a hit holds: a list holds its items (at
\* most cap of them are taken), a non-empty string or a number holds one
HowMany(v, cap) ==
  IF v.t = "list" THEN (IF Len(v.v) < cap THEN Len(v.v) ELSE cap)
  ELSE IF Truthy(v) THEN 1
  ELSE 0

\* the row types the documented harvest order gives for one hit
AggTypes(hit) ==
  IF hit = None THEN <<>>
  ELSE Times("HGNC Symbol", HowMany(Get(hit, "symbol"), 1))
       \o Times("HGNC ID", HowMany(Get(hit, "hgnc"), 1))
       \o Times("NCBI Gene (Entrez)", HowMany(Get(hit, "entrezgene"), 1))
       \o Times("UniProtKB",
                IF Get(hit, "uniprot").t = "dict"
                THEN HowMany(Get(Get(hit, "uniprot"), "Swiss-Prot"), RefSeqCap) ELSE 0)
       \o Times("RefSeq RNA", HowMany(Get(GetD(hit, "refseq", EmptyDict), "rna"), RefSeqCap))
       \o Times("RefSeq Protein",
                HowMany(Get(GetD(hit, "refseq", EmptyDict), "protein"), RefSeqCap))

\* the labels the tag of a Cross-Reference Expansion entry may be mapped to
TagLabels(db) ==
  IF db = DbHgnc THEN {"HGNC ID"}
  ELSE IF db \in {DbSwissProt, DbTrembl} THEN {"UniProtKB"}
  ELSE IF db = DbEntrez THEN {"NCBI Gene (Entrez)"}
  ELSE IF StartsWith(db, DbRefSeqPrefix) THEN {"RefSeq RNA", "RefSeq Protein", "RefSeq"}
  ELSE {}

EntryId(x) == PyOr(Get(x, "primary_id"), Get(x, "display_id"))

\* an entry with a mapped tag and an identifier
Mappable(x) ==
  /\ x.t = "dict"
  /\ Get(x, "dbname").t = "str"
  /\ TagLabels(Get(x, "dbname").v) # {}
  /\ Truthy(EntryId(x))

\* the identifier of the sibling row of a mappable entry, as text
SiblingId(x) ==
  IF Get(x, "dbname").v = DbHgnc /\ ~StartsWith(PyStr(EntryId(x)), HgncPrefix)
  THEN HgncPrefix \o PyStr(EntryId(x))
  ELSE PyStr(EntryId(x))

\* what a buffer is expected to hold for one expansion reply: the sibling of
\* every mappable entry, in service order
RECURSIVE Siblings(_, _)
Siblings(xs, i) ==
  IF i > Len(xs) THEN <<>>
  ELSE IF Mappable(xs[i])
       THEN <<[labels |-> TagLabels(Get(xs[i], "dbname").v), id |-> SiblingId(xs[i])]>>
            \o Siblings(xs, i + 1)
       ELSE Siblings(xs, i + 1)

ReplySiblings(resp) ==
  IF resp.kind = "ok" /\ resp.body.t = "list" THEN Siblings(resp.body.v, 1) ELSE <<>>

IsExpansion(call) == call.adapter = "CrossReferenceExpansion"

\* the Ensembl Gene row of every expansion call followed by its siblings
RECURSIVE Expansions(_)
Expansions(calls) ==
  IF calls = <<>> THEN <<>>
  ELSE <<[labels |-> {"Ensembl Gene"}, id |-> Head(calls).arg]>>
       \o ReplySiblings(Head(calls).resp) \o Expansions(Tail(calls))

AggLabels ==
  <<"HGNC Symbol", "HGNC ID", "NCBI Gene (Entrez)", "UniProtKB", "RefSeq RNA", "RefSeq Protein">>

Rank(type) == CHOOSE i \in 1..6 : AggLabels[i] = type

\* (Type, Identifier as text) of the rows map_gene_ids returned
Keys(rs) == [i \in 1..Len(rs) |-> <<rs[i].Type, PyStr(rs[i].Identifier)>>]

ScenarioHit == D([symbol |-> S(TP), ensembl |-> D([gene |-> S(E1)]), entrezgene |-> S(<<"7">>)])

ScenarioXrefs ==
  L(<<D([dbname |-> S(DbHgnc), primary_id |-> S(HgncPrefix \o <<"1", "1">>)]),
      D([dbname |-> S(DbSwissProt), primary_id |-> S(P1)])>>)

ScenarioRan ==
  /\ MapReturned
  /\ Len(trace) = 2
  /\ trace[1].resp = Ok(D([hits |-> L(<<ScenarioHit>>)]))
  /\ trace[2].resp = Ok(ScenarioXrefs)

\* C13: in what map_gene_ids accumulates and returns the rows harvested from
\* the Aggregator come first, in the order HGNC Symbol, HGNC ID, NCBI Gene
\* (Entrez), UniProtKB, RefSeq RNA, RefSeq Protein; then for every expansion
\* in turn the Ensembl Gene row of its accession followed by the siblings of
\* its reply in service order; in the output the rows ahead of the first
\* Ensembl Gene row keep the harvest order, and the hit {symbol TP, accession
\* ENSG000001, entrez 7} with the expansion [HGNC:11, P1] returns exactly
\* HGNC Symbol/TP, NCBI Gene (Entrez)/7, Ensembl Gene/ENSG000001,
\* HGNC ID/HGNC:11, UniProtKB/P1
C13_HarvestOrder ==
  (MapReturned /\ trace # <<>>) =>
    LET types == AggTypes(FirstHit(trace[1].resp))
        n == Len(types)
        exp == Expansions(SelectSeq(trace, IsExpansion))
        out == result.v
    IN /\ Len(rows) >= n + Len(exp)
       /\ \A i \in 1..n : rows[i].Type = types[i]
       /\ \A i \in 1..Len(exp) :
            /\ rows[n + i].Type \in exp[i].labels
            /\ PyStr(rows[n + i].Identifier) = exp[i].id
       /\ \A k \in 1..Len(out) :
            (out[k].Type = "Ensembl Gene" /\ \A i \in 1..(k - 1) : out[i].Type # "Ensembl Gene") =>
              \A i, j \in 1..(k - 1) :
                i < j => /\ out[i].Type \in {AggLabels[r] : r \in 1..6}
                         /\ out[j].Type \in {AggLabels[r] : r \in 1..6}
                         /\ Rank(out[i].Type) <= Rank(out[j].Type)
       /\ ScenarioRan =>
            Keys(out) = << <<"HGNC Symbol", TP>>, <<"NCBI Gene (Entrez)", <<"7">> >>,
                           <<"Ensembl Gene", E1>>, <<"HGNC ID", HgncPrefix \o <<"1", "1">> >>,
                           <<"UniProtKB", P1>> >>

\* C13 witness: the scenario of the claim ran and five rows came back
C13_Witness == ScenarioRan /\ Len(result.v) = 5

\* the accessions one hit supplies, as text
SuppliedGenes(hit) ==
  IF hit = None THEN {}
  ELSE LET ens == Get(hit, "ensembl") IN
    IF ens.t = "dict" THEN (IF Truthy(Get(ens, "gene")) THEN {PyStr(Get(ens, "gene"))} ELSE {})
    ELSE IF ens.t = "list"
         THEN {PyStr(Get(ens.v[i], "gene")) :
                 i \in {k \in 1..Len(ens.v) : ens.v[k].t = "dict" /\ Truthy(Get(ens.v[k], "gene"))}}
    ELSE {}

\* C15: map_gene_ids accumulates: a successful Aggregator Search does not end
\* it; by the time it returns, Cross-Reference Expansion was called for every
\* accession the hit supplied, and the sibling of every mappable entry of
\* every expansion reply is a row of the output
C15_AccumulatesAcrossAdapters ==
  (MapReturned /\ trace # <<>>) =>
    /\ \A g \in SuppliedGenes(FirstHit(trace[1].resp)) :
         \E i \in 2..Len(trace) : IsExpansion(trace[i]) /\ trace[i].arg = g
    /\ \A i \in 1..Len(trace) :
         IsExpansion(trace[i]) =>
           LET siblings == ReplySiblings(trace[i].resp) IN
             \A k \in 1..Len(siblings) :
               \E r \in 1..Len(result.v) :
                 /\ result.v[r].Type \in siblings[k].labels
                 /\ PyStr(result.v[r].Identifier) = siblings[k].id

\* C15 witness: the hit supplied an accession, an HGNC ID and a protein
\* accession, the expansion was called all the same and its RefSeq sibling,
\* which the buffer did not hold, is in the output
C15_Witness ==
  /\ MapReturned
  /\ Len(trace) = 2
  /\ FirstHit(trace[1].resp) # None
  /\ Truthy(Get(FirstHit(trace[1].resp), "hgnc"))
  /\ Truthy(Get(FirstHit(trace[1].resp), "uniprot"))
  /\ IsExpansion(trace[2])
  /\ trace[2].arg = E1
  /\ \E r \in 1..Len(result.v) : result.v[r].Type = "RefSeq" /\ result.v[r].Identifier = S(NM1)

\* the label the description of a RefSeq entry indicates
HintedLabel(x) ==
  LET desc == Get(x, "description")
      text == IF desc.t = "str" THEN Lower(desc.v) ELSE <<>>
  IN IF Contains(text, <<"m", "r", "n", "a">>) THEN "RefSeq RNA"
     ELSE IF Contains(text, <<"p", "r", "o", "t", "e", "i", "n">>) THEN "RefSeq Protein"
     ELSE "RefSeq"

IsRefSeqEntry(x) == Mappable(x) /\ StartsWith(Get(x, "dbname").v, DbRefSeqPrefix)

\* C16: every Cross-Reference Expansion entry whose tag begins with RefSeq
\* gives a row labelled after its description: RefSeq RNA when it indicates
\* mRNA, RefSeq Protein when it indicates protein, RefSeq otherwise
C16_RefSeqLabelFollowsDescription ==
  MapReturned =>
    \A i \in 1..Len(trace) :
      (IsExpansion(trace[i]) /\ trace[i].resp.kind = "ok" /\ trace[i].resp.body.t = "list") =>
        \A k \in 1..Len(trace[i].resp.body.v) :
          IsRefSeqEntry(trace[i].resp.body.v[k]) =>
            \E r \in 1..Len(rows) :
              /\ rows[r].Type = HintedLabel(trace[i].resp.body.v[k])
              /\ rows[r].Identifier = EntryId(trace[i].resp.body.v[k])

IsSymbolLookup(call) == call.adapter = "SymbolLookup"

\* a lookup reply that is a JSON object with an id
GaveId(resp) == resp.kind = "ok" /\ resp.body.t = "dict" /\ Truthy(Get(resp.body, "id"))

\* map_gene_ids is past its steps 1-3 and has not raised
PastStep3 == op = "map" /\ pc \in {"m_xref", "m_hgnc", "m_uni", "done"} /\ trace # <<>>

\* C17: in map_gene_ids Symbol Lookup is never called when the Aggregator
\* supplied an accession; otherwise it is called with the Aggregator's symbol
\* when that is known (step 2) and then, iff there is still no accession and
\* the stripped query is purely alphabetic, with the stripped query (step 3);
\* these calls follow Aggregator Search directly, and an accession either of
\* them returns is the one Cross-Reference Expansion is called with next
C17_SymbolLookupSteps ==
  PastStep3 =>
    LET hit == FirstHit(trace[1].resp)
        hasGene == SuppliedGenes(hit) # {}
        aggSym == IF hit = None THEN None ELSE Get(hit, "symbol")
        step2 == ~hasGene /\ Truthy(aggSym)
        step3 == /\ ~hasGene
                 /\ step2 => (Len(trace) >= 2 /\ ~GaveId(trace[2].resp))
                 /\ IsAlpha(q)
        expected == (IF step2 THEN <<PyStr(aggSym)>> ELSE <<>>)
                    \o (IF step3 THEN <<q>> ELSE <<>>)
    IN /\ Len(trace) >= 1 + Len(expected)
       /\ \A i \in 1..Len(expected) :
            IsSymbolLookup(trace[1 + i]) /\ trace[1 + i].arg = expected[i]
       /\ \A i \in (2 + Len(expected))..Len(trace) : ~IsSymbolLookup(trace[i])
       /\ \A i \in 2..Len(trace) :
            (IsSymbolLookup(trace[i]) /\ GaveId(trace[i].resp)) =>
              IF i = Len(trace)
              THEN pc = "m_xref" /\ idx = 1 /\ ensgs = <<trace[i].resp.body.v.id>>
              ELSE /\ IsExpansion(trace[i + 1])
                   /\ trace[i + 1].arg = PyStr(trace[i].resp.body.v.id)

\* C17 witness: the Aggregator knew the symbol and no accession, Symbol
\* Lookup failed for the symbol and answered ENSG000002 for the raw query,
\* which was then expanded
C17_Witness ==
  /\ PastStep3
  /\ q = TP
  /\ Len(trace) >= 4
  /\ FirstHit(trace[1].resp) = D([symbol |-> S(TP)])
  /\ IsSymbolLookup(trace[2]) /\ trace[2].resp \in Failures
  /\ IsSymbolLookup(trace[3]) /\ GaveId(trace[3].resp)
  /\ IsExpansion(trace[4]) /\ trace[4].arg = E2

\* the arguments of the Cross-Reference Expansion calls made so far
ExpansionArgs ==
  [i \in 1..Len(SelectSeq(trace, IsExpansion)) |-> SelectSeq(trace, IsExpansion)[i].arg]

IsEnsemblRow(row) == row.Type = "Ensembl Gene"

\* the accessions of the Ensembl Gene rows of the buffer, as text
EnsemblRowIds ==
  [i \in 1..Len(SelectSeq(rows, IsEnsemblRow)) |->
     PyStr(SelectSeq(rows, IsEnsemblRow)[i].Identifier)]

\* index of the first report of accession g in ensgs
FirstReport(g) == CHOOSE i \in 1..Len(ensgs) :
                    PyStr(ensgs[i]) = g /\ \A j \in 1..(i - 1) : PyStr(ensgs[j]) # g

\* C18: step 4 of map_gene_ids calls Cross-Reference Expansion exactly once
\* per distinct discovered accession, in the order of first discovery: no
\* accession is expanded twice, once the loop is left the expanded accessions
\* are the discovered ones in first-report order, and the Ensembl Gene row of
\* an accession is in the buffer before its expansion is called (while a call
\* is pending the row is the last of the buffer, ahead of any sibling)
C18_OneExpansionPerAccession ==
  (op = "map" /\ pc \in {"m_xref", "m_hgnc", "m_uni", "done"}) =>
    /\ \A i, j \in 1..Len(ExpansionArgs) : i < j => ExpansionArgs[i] # ExpansionArgs[j]
    /\ \A i \in 1..Len(ExpansionArgs) :
         \E k \in 1..Len(ensgs) : PyStr(ensgs[k]) = ExpansionArgs[i]
    /\ \A i, j \in 1..Len(ExpansionArgs) :
         i < j => FirstReport(ExpansionArgs[i]) < FirstReport(ExpansionArgs[j])
    /\ pc # "m_xref" =>
         /\ \A k \in 1..Len(ensgs) :
              \E i \in 1..Len(ExpansionArgs) : ExpansionArgs[i] = PyStr(ensgs[k])
         /\ EnsemblRowIds = ExpansionArgs
    /\ pc = "m_xref" =>
         /\ rows # <<>>
         /\ IsEnsemblRow(rows[Len(rows)])
         /\ EnsemblRowIds = Append(ExpansionArgs, PyStr(rows[Len(rows)].Identifier))
         /\ \E k \in 1..Len(ensgs) : ensgs[k] = rows[Len(rows)].Identifier

\* C18 witness: the hit reported ENSG000001, ENSG000002 and ENSG000001 again,
\* and the loop was left after two expansions, in that order
C18_Witness ==
  /\ MapReturned
  /\ Len(ensgs) = 3
  /\ ensgs[1] = ensgs[3]
  /\ ExpansionArgs = <<E1, E2>>

RowLabels ==
  {"HGNC Symbol", "HGNC ID", "Ensembl Gene", "NCBI Gene (Entrez)", "UniProtKB",
   "RefSeq RNA", "RefSeq Protein", "RefSeq"}

\* every row map_gene_ids returned has the fields Type, Identifier and URL
\* and a Type of the fixed label set
WellFormedOutput ==
  MapReturned =>
    \A r \in 1..Len(result.v) :
      /\ DOMAIN result.v[r] = {"Type", "Identifier", "URL"}
      /\ result.v[r].Type \in RowLabels

\* one Cross-Reference Expansion reply was harvested without raising: the
\* rows it added to the buffer (the Ensembl Gene row that opens the next
\* accession set aside) are the siblings of its mappable entries, one each,
\* in service order, under the label of the entry's tag
ExpansionHarvested ==
  (pc = "m_xref" /\ Len(trace') = Len(trace) + 1 /\ pc' # "raised") =>
    LET sib == ReplySiblings(trace'[Len(trace')].resp)
        opened == IF pc' = "m_xref" THEN 1 ELSE 0
    IN /\ Len(rows') = Len(rows) + Len(sib) + opened
       /\ SubSeq(rows', 1, Len(rows)) = rows
       /\ \A i \in 1..Len(sib) :
            /\ rows'[Len(rows) + i].Type \in sib[i].labels
            /\ PyStr(rows'[Len(rows) + i].Identifier) = sib[i].id

\* C19: every Cross-Reference Expansion entry is mapped by its tag: HGNC to
\* HGNC ID, UniProtKB/Swiss-Prot and UniProtKB/TrEMBL to UniProtKB,
\* EntrezGene to NCBI Gene (Entrez), RefSeq* to one of the RefSeq labels; an
\* entry with another tag, or with neither primary_id nor display_id, adds
\* no row; and every row of the output has exactly the fields Type,
\* Identifier, URL with a Type of the eight labels
C19_XrefTagMapping == []WellFormedOutput /\ [][ExpansionHarvested]_vars

\* C19 witness: the expansion of the first accession returned a TrEMBL entry
\* that has only a display_id, the expansion of the second an entry tagged
\* MIM, and the output holds UniProtKB/P2 and nothing for MIM
C19_Witness ==
  /\ MapReturned
  /\ Len(trace) >= 3
  /\ trace[2].resp = Ok(L(<<D([dbname |-> S(DbTrembl), display_id |-> S(P2)])>>))
  /\ trace[3].resp = Ok(L(<<D([dbname |-> S(<<"M", "I", "M">>), primary_id |-> S(<<"9">>)])>>))
  /\ \E r \in 1..Len(result.v) :
       result.v[r].Type = "UniProtKB" /\ result.v[r].Identifier = S(P2)
  /\ \A r \in 1..Len(result.v) : result.v[r].Identifier # S(<<"9">>)

IsRegistrySearch(call) == call.adapter = "NomenclatureRegistrySearch"

\* the first document of a Nomenclature Registry Search reply, None if none
FirstDoc(resp) ==
  IF /\ resp.kind = "ok"
     /\ resp.body.t = "dict"
     /\ Get(resp.body, "response").t = "dict"
     /\ Get(Get(resp.body, "response"), "docs").t = "list"
     /\ Get(Get(resp.body, "response"), "docs").v # <<>>
     /\ Get(Get(resp.body, "response"), "docs").v[1].t = "dict"
  THEN Get(Get(resp.body, "response"), "docs").v[1]
  ELSE None

HasRow(rs, type, ident) == \E r \in 1..Len(rs) : rs[r].Type = type /\ rs[r].Identifier = ident

\* C20: map_gene_ids calls Nomenclature Registry Search iff, once steps 1-4
\* are over, no symbol is known and the stripped query is purely alphabetic:
\* never when the Aggregator supplied a symbol, and otherwise once, with the
\* stripped query; when the reply has a first document its symbol is
\* appended as an HGNC Symbol row and its hgnc_id as an HGNC ID row, and both
\* are rows of the output
C20_RegistrySearchGuard ==
  (op = "map" /\ pc \in {"m_hgnc", "m_uni", "done"} /\ trace # <<>>) =>
    LET hit == FirstHit(trace[1].resp)
        aggSym == IF hit = None THEN None ELSE Get(hit, "symbol")
        due == ~Truthy(aggSym) /\ IsAlpha(q)
        searches == SelectSeq(trace, IsRegistrySearch)
    IN /\ Len(searches) = IF due /\ pc # "m_hgnc" THEN 1 ELSE 0
       /\ pc = "m_hgnc" => due
       /\ \A i \in 1..Len(searches) :
            /\ searches[i].arg = q
            /\ FirstDoc(searches[i].resp) # None =>
                 LET doc == FirstDoc(searches[i].resp) IN
                   /\ Truthy(Get(doc, "symbol")) =>
                        /\ HasRow(rows, "HGNC Symbol", Get(doc, "symbol"))
                        /\ pc = "done" => HasRow(result.v, "HGNC Symbol", Get(doc, "symbol"))
                   /\ Truthy(Get(doc, "hgnc_id")) =>
                        /\ HasRow(rows, "HGNC ID", Get(doc, "hgnc_id"))
                        /\ pc = "done" => HasRow(result.v, "HGNC ID", Get(doc, "hgnc_id"))

\* C20 witness: the Aggregator knew no symbol for the query TP, the registry
\* was searched and its first document gave the rows HGNC Symbol/TP and
\* HGNC ID/HGNC:11
C20_Witness ==
  /\ MapReturned
  /\ q = TP
  /\ \E i \in 1..Len(trace) :
       /\ IsRegistrySearch(trace[i])
       /\ FirstDoc(trace[i].resp) = D([symbol |-> S(TP), hgnc_id |-> S(HgncPrefix \o <<"1", "1">>)])
  /\ HasRow(result.v, "HGNC Symbol", S(TP))
  /\ HasRow(result.v, "HGNC ID", S(HgncPrefix \o <<"1", "1">>))

(***************************************************************************)
(* Two callers.  The variables op .. trace are the invocation that is      *)
(* running; parked is the invocation of the other caller, suspended        *)
(* between two of its adapter calls (or not calling).  The module has no   *)
(* global but the imports: q, rows, ensgs, symbol and the loop position    *)
(* are locals of the function, so a switch of callers takes them along.    *)
(***************************************************************************)
Running ==
  [op |-> op, query |-> query, q |-> q, pc |-> pc, rows |-> rows, ensgs |-> ensgs,
   symbol |-> symbol, idx |-> idx, result |-> result, trace |-> trace]

\* a switch of callers with rows kept in one buffer of the module
SwitchSharedBuffer ==
  /\ op # "none" \/ parked.op # "none"
  /\ parked' = Running
  /\ op' = parked.op
  /\ query' = parked.query
  /\ q' = parked.q
  /\ pc' = parked.pc
  /\ rows' = rows
  /\ ensgs' = parked.ensgs
  /\ symbol' = parked.symbol
  /\ idx' = parked.idx
  /\ result' = parked.result
  /\ trace' = parked.trace
  /\ UNCHANGED retry

\* lines 35 and 116-122: the other caller runs on, with its own locals
Switch ==
  /\ op # "none" \/ parked.op # "none"
  /\ parked' = Running
  /\ op' = parked.op
  /\ query' = parked.query
  /\ q' = parked.q
  /\ pc' = parked.pc
  /\ rows' = parked.rows
  /\ ensgs' = parked.ensgs
  /\ symbol' = parked.symbol
  /\ idx' = parked.idx
  /\ result' = parked.result
  /\ trace' = parked.trace
  /\ UNCHANGED retry

\* the queries and replies of the two callers
ConcQueries == {S(TP), S(E1)}

ConcReplies ==
  {[kind |-> "neterr"],
   Ok(D([id |-> S(E1), display_name |-> S(TP), description |-> S(Desc)])),
   Ok(D([hits |-> L(<<ScenarioHit>>)])),
   Ok(D([hits |-> L(<<D([symbol |-> S(TP)])>>)])),
   Ok(D([hits |-> L(<<D([entrezgene |-> N(7), ensembl |-> L(<<>>)])>>)])),
   Ok(ScenarioXrefs),
   Ok(D([response |-> D([docs |-> L(<<D([symbol |-> S(TP),
                                         hgnc_id |-> S(HgncPrefix \o <<"1", "1">>)])>>)])])),
   Ok(D([results |-> L(<<Acc(P1)>>)]))}

InScope ==
  /\ query \in ConcQueries \cup {None}
  /\ \A i \in 1..Len(trace) : trace[i].resp \in ConcReplies

NextConc ==
  \/ CallResolve /\ InScope'
  \/ ResolveDirect /\ InScope'
  \/ ResolveAggregator /\ InScope'
  \/ ResolveSymbol /\ InScope'
  \/ CallMap /\ InScope'
  \/ MapAggregator /\ InScope'
  \/ MapSymbolLookup /\ InScope'
  \/ MapSymbolLookupRaw /\ InScope'
  \/ MapXrefs /\ InScope'
  \/ MapHgnc /\ InScope'
  \/ MapUniprot /\ InScope'
  \/ Return
  \/ Switch

SpecConc == Init /\ [][NextConc]_vars

\* lines 35-40 and 116-129: where a call made alone stands before its first
\* adapter call
StartAlone(opn, arg) ==
  IF opn = "resolve"
  THEN Frame(IF Normalize(arg) = <<>> THEN "done"
             ELSE IF IsAccession(Normalize(arg)) THEN "r_direct"
             ELSE "r_agg",
             NoLocals, 0, None)
  ELSE IF Normalize(arg) = <<>> THEN Frame("done", NoLocals, 0, L(<<>>))
  ELSE Frame("m_agg", NoLocals, 0, None)

\* lines 41-105 and 134-297: where a call made alone stands after the
\* adapter call pending at frame f was answered resp
StepAlone(qq, f, resp) ==
  LET st == [rows |-> f.rows, ensgs |-> f.ensgs, symbol |-> f.symbol]
      json == SafeGetJson(resp)
      land(out, next) == Frame(Landing(out, next).pc, NoLocals, 0, Landing(out, next).result)
  IN CASE f.pc = "r_direct" -> land(DirectOutcome(qq, resp), "r_agg")
       [] f.pc = "r_agg" -> land(AggOutcome(resp), AfterAggregator(qq))
       [] f.pc = "r_sym" -> land(SymbolOutcome(qq, resp), "done")
       [] f.pc = "m_agg" ->
            IF HarvestAggregator(json, st) = Raise THEN RaisedFrame
            ELSE AfterStep1(qq, HarvestAggregator(json, st))
       [] f.pc = "m_sym2" ->
            IF HarvestSymbolLookup(json, st) = Raise THEN RaisedFrame
            ELSE AfterStep2(qq, HarvestSymbolLookup(json, st))
       [] f.pc = "m_sym3" ->
            IF HarvestSymbolLookup(json, st) = Raise THEN RaisedFrame
            ELSE AfterStep3(qq, HarvestSymbolLookup(json, st))
       [] f.pc = "m_xref" ->
            IF HarvestXrefs(json, st) = Raise THEN RaisedFrame
            ELSE EnterXref(qq, HarvestXrefs(json, st), f.idx + 1)
       [] f.pc = "m_hgnc" ->
            IF HarvestHgnc(json, st) = Raise THEN RaisedFrame
            ELSE AfterStep5(qq, HarvestHgnc(json, st))
       [] f.pc = "m_uni" ->
            IF HarvestUniprot(json, st) = Raise THEN RaisedFrame
            ELSE Finish(HarvestUniprot(json, st))
       [] OTHER -> f

\* the frame a call made alone reaches on the replies of calls, in order
RECURSIVE RunAlone(_, _, _)
RunAlone(qq, f, calls) ==
  IF calls = <<>> THEN f
  ELSE RunAlone(qq, StepAlone(qq, f, Head(calls).resp), Tail(calls))

\* invocation inv stands exactly where it would stand had it been made
\* alone and received the replies it received; a caller that is not in a
\* call holds nothing
AsIfAlone(inv) ==
  IF inv.op = "none" THEN inv = NotCalled
  ELSE /\ inv.q = Normalize(inv.query)
       /\ Frame(inv.pc, [rows |-> inv.rows, ensgs |-> inv.ensgs, symbol |-> inv.symbol],
                inv.idx, inv.result)
            = RunAlone(inv.q, StartAlone(inv.op, inv.query), inv.trace)

\* C14: invocations of resolve_to_ensembl_gene and map_gene_ids share no
\* mutable state: with two callers interleaved at adapter-call granularity,
\* each invocation is at every moment at the position, with the locals and
\* the result, that it would have if made alone against the replies it
\* received itself, and once a call has returned nothing of it is left (the
\* next call starts from its own start and issues its adapter calls anew)
C14_NoSharedState == AsIfAlone(Running) /\ AsIfAlone(parked)

\* C14 witness: map_gene_ids returned the five rows of the TP scenario to one
\* caller while the other caller is suspended inside resolve_to_ensembl_gene
\* after its Aggregator Search, before its Symbol Lookup
C14_Witness ==
  /\ ScenarioRan
  /\ Len(result.v) = 5
  /\ parked.op = "resolve"
  /\ parked.pc = "r_sym"
  /\ Len(parked.trace) = 1

IsProteinSearch(call) == call.adapter = "ProteinKnowledgebaseSearch"

\* the symbol map_gene_ids knows after steps 1-5, recomputed from the
\* replies: the one of the Aggregator hit, else the one of the first
\* document of the registry search
KnownSymbol ==
  LET hit == FirstHit(trace[1].resp)
      aggSym == IF hit = None THEN None ELSE Get(hit, "symbol")
      searches == SelectSeq(trace, IsRegistrySearch)
  IN IF Truthy(aggSym) THEN aggSym
     ELSE IF searches # <<>> /\ FirstDoc(searches[1].resp) # None
          THEN Get(FirstDoc(searches[1].resp), "symbol")
     ELSE None

\* the Aggregator hit or an expansion reply gave a protein accession
ProteinSupplied ==
  \/ \E i \in 1..Len(AggTypes(FirstHit(trace[1].resp))) :
       AggTypes(FirstHit(trace[1].resp))[i] = "UniProtKB"
  \/ \E i \in 1..Len(trace) :
       /\ IsExpansion(trace[i])
       /\ \E k \in 1..Len(ReplySiblings(trace[i].resp)) :
            ReplySiblings(trace[i].resp)[k].labels = {"UniProtKB"}

\* Protein-Knowledgebase Search is called (or is the pending call) exactly
\* when a symbol is known and no protein accession was supplied, once, with
\* that symbol
ProteinSearchGuard ==
  (op = "map" /\ pc \in {"m_uni", "done"} /\ trace # <<>>) =>
    LET due == Truthy(KnownSymbol) /\ ~ProteinSupplied
        searches == SelectSeq(trace, IsProteinSearch)
    IN /\ Len(searches) = IF due /\ pc = "done" THEN 1 ELSE 0
       /\ pc = "m_uni" => due
       /\ \A i \in 1..Len(searches) : searches[i].arg = PyStr(KnownSymbol)

\* the accessions of the first cap results that carry one, in service order
RECURSIVE FirstAccessions(_, _, _)
FirstAccessions(results, i, cap) ==
  IF i > Len(results) \/ i > cap THEN <<>>
  ELSE IF results[i].t = "dict" /\ Truthy(Get(results[i], "primaryAccession"))
       THEN <<Get(results[i], "primaryAccession")>> \o FirstAccessions(results, i + 1, cap)
       ELSE FirstAccessions(results, i + 1, cap)

ReplyAccessions(resp) ==
  IF /\ resp.kind = "ok"
     /\ resp.body.t = "dict"
     /\ Get(resp.body, "results").t = "list"
  THEN FirstAccessions(Get(resp.body, "results").v, 1, UniprotCap)
  ELSE <<>>

\* a Protein-Knowledgebase Search reply was harvested and the call returned:
\* the buffer grew by one UniProtKB row per accession of the first five
\* results, in service order, and by nothing else
ProteinSearchHarvested ==
  (pc = "m_uni" /\ pc' = "done") =>
    LET acc == ReplyAccessions(trace'[Len(trace')].resp) IN
      /\ Len(acc) <= UniprotCap
      /\ Len(rows') = Len(rows) + Len(acc)
      /\ SubSeq(rows', 1, Len(rows)) = rows
      /\ \A i \in 1..Len(acc) :
           /\ rows'[Len(rows) + i].Type = "UniProtKB"
           /\ rows'[Len(rows) + i].Identifier = acc[i]

\* C21: map_gene_ids calls Protein-Knowledgebase Search iff, after steps 1-5
\* (the symbol may have come from the registry search of step 5), a symbol is
\* known and neither the Aggregator nor any expansion put a UniProtKB row in
\* the buffer; the call appends at most 5 UniProtKB rows, those of the first
\* 5 results in service order
C21_ProteinSearchGuardAndCap == []ProteinSearchGuard /\ [][ProteinSearchHarvested]_vars

\* C21 witness: the symbol came from the registry search alone, the protein
\* search returned six results and five UniProtKB rows, P1 to P5, came back
C21_Witness ==
  /\ MapReturned
  /\ Len(trace) >= 2
  /\ FirstHit(trace[1].resp) = None
  /\ IsProteinSearch(LastCall)
  /\ LastCall.resp.kind = "ok"
  /\ LastCall.resp.body.t = "dict"
  /\ Get(LastCall.resp.body, "results").t = "list"
  /\ Len(Get(LastCall.resp.body, "results").v) = 6
  /\ Keys(result.v) = << <<"HGNC Symbol", TP>>, <<"UniProtKB", P1>>, <<"UniProtKB", P2>>,
                         <<"UniProtKB", <<"P", "3">> >>, <<"UniProtKB", <<"P", "4">> >>,
                         <<"UniProtKB", <<"P", "5">> >> >>

\* invocation inv of map_gene_ids is past its steps 1-3 and has not raised
InvPastStep3(inv) ==
  inv.op = "map" /\ inv.pc \in {"m_xref", "m_hgnc", "m_uni", "done"} /\ inv.trace # <<>>

\* the Symbol Lookup calls invocation inv issued
SymbolCalls(inv) == SelectSeq(inv.trace, IsSymbolLookup)

SymbolArgs(inv) == [i \in 1..Len(SymbolCalls(inv)) |-> SymbolCalls(inv)[i].arg]

\* two runs of map_gene_ids on the same query, both past step 3, that got
\* the same reply to every Symbol Lookup both of them issued
SameButAggregator(a, b) ==
  /\ InvPastStep3(a)
  /\ InvPastStep3(b)
  /\ a.query = b.query
  /\ \A i \in 1..Len(SymbolCalls(a)) :
       i <= Len(SymbolCalls(b)) => SymbolCalls(a)[i].resp = SymbolCalls(b)[i].resp

AggSymbol(inv) ==
  IF FirstHit(inv.trace[1].resp) = None THEN None
  ELSE Get(FirstHit(inv.trace[1].resp), "symbol")

\* C22 as stated: steps 1-3 of map_gene_ids are mutually independent: two
\* runs on the same query that differ only in the Aggregator response issue
\* the same Symbol Lookup calls in steps 2 and 3
C22_StepsIndependentOfAggregator ==
  SameButAggregator(Running, parked) => SymbolArgs(Running) = SymbolArgs(parked)

\* C22 amended: the Symbol Lookup calls of steps 2 and 3 depend on the
\* Aggregator response through two facts only, whether it supplied an
\* accession and which symbol it supplied: two runs on the same query whose
\* Aggregator responses agree on both issue the same Symbol Lookup calls,
\* with the same arguments
C22_StepsDependOnAccessionAndSymbol ==
  (/\ SameButAggregator(Running, parked)
   /\ (SuppliedGenes(FirstHit(Running.trace[1].resp)) = {})
        = (SuppliedGenes(FirstHit(parked.trace[1].resp)) = {})
   /\ AggSymbol(Running) = AggSymbol(parked)) =>
     SymbolArgs(Running) = SymbolArgs(parked)

\* C22 witness: two runs on TP, one whose Aggregator Search failed and one
\* whose Aggregator Search returned a hit with an Entrez number only, both
\* issued the one Symbol Lookup of step 3 and got the same reply
C22_Witness ==
  /\ SameButAggregator(Running, parked)
  /\ Running.trace[1].resp = [kind |-> "neterr"]
  /\ FirstHit(parked.trace[1].resp) = D([entrezgene |-> N(7), ensembl |-> L(<<>>)])
  /\ SymbolArgs(Running) = <<TP>>
  /\ SymbolArgs(parked) = <<TP>>
  /\ GaveId(SymbolCalls(parked)[1].resp)

IsDirectLookup(call) == call.adapter = "DirectAccessionLookup"

IsAggregatorSearch(call) == call.adapter = "AggregatorSearch"

\* how often each adapter may be called in one call: once each in
\* resolve_to_ensembl_gene; in map_gene_ids on a non-empty query Aggregator
\* Search exactly once, Symbol Lookup at most twice, the registry and the
\* protein search at most once, an accession expanded at most once
CallBudget ==
  /\ op = "resolve" =>
       /\ Len(SelectSeq(trace, IsDirectLookup)) <= 1
       /\ Len(SelectSeq(trace, IsAggregatorSearch)) <= 1
       /\ Len(SelectSeq(trace, IsSymbolLookup)) <= 1
  /\ (op = "map" /\ q # <<>> /\ pc # "m_agg") =>
       /\ Len(SelectSeq(trace, IsAggregatorSearch)) = 1
       /\ Len(SelectSeq(trace, IsSymbolLookup)) <= 2
       /\ Len(SelectSeq(trace, IsRegistrySearch)) <= 1
       /\ Len(SelectSeq(trace, IsProteinSearch)) <= 1
       /\ \A i, j \in 1..Len(trace) :
            (i < j /\ IsExpansion(trace[i]) /\ IsExpansion(trace[j])) =>
              trace[i].arg # trace[j].arg

\* a later call repeats call i: same adapter, same argument
Repeats(i, j) ==
  i < j /\ trace[j].adapter = trace[i].adapter /\ trace[j].arg = trace[i].arg

\* C23 as stated: no adapter call is retried inside the core: every adapter
\* keeps to its budget and a failed call is never repeated, that is, no
\* later call of the same invocation has its adapter and argument
C23_NoCallRepeated ==
  /\ CallBudget
  /\ \A i, j \in 1..Len(trace) : trace[i].resp \in Failures => ~Repeats(i, j)

\* C23 amended: every adapter keeps to its budget and no step repeats its
\* call; the one request that can be sent twice in an invocation is the
\* Symbol Lookup of map_gene_ids, by step 2 with the Aggregator's symbol and
\* then by step 3 with the stripped query, when the two are the same text
\* and step 2 obtained no accession
C23_NoStepRepeatsItsCall ==
  /\ CallBudget
  /\ \A i, j \in 1..Len(trace) :
       Repeats(i, j) =>
         /\ op = "map"
         /\ i = 2
         /\ j = 3
         /\ IsSymbolLookup(trace[i])
         /\ ~GaveId(trace[i].resp)
         /\ trace[i].arg = q
         /\ FirstHit(trace[1].resp) # None
         /\ trace[i].arg = PyStr(Get(FirstHit(trace[1].resp), "symbol"))

\* C23 witness: the Aggregator gave the symbol TP and no accession; step 2,
\* step 3 (the same request again) and the protein search each made one
\* call, each call failed, and map_gene_ids returned after four calls
C23_Witness ==
  /\ MapReturned
  /\ Len(trace) = 4
  /\ \A i \in 2..4 : trace[i].resp \in Failures
  /\ IsSymbolLookup(trace[2])
  /\ IsSymbolLookup(trace[3])
  /\ trace[2].arg = trace[3].arg
  /\ IsProteinSearch(trace[4])

(***************************************************************************)
(* apis.py, safe_api_call(func, *args, **kwargs): the retry wrapper of the *)
(* surrounding system.  It runs on its own variable retry and leaves the   *)
(* resolvers alone.                                                        *)
(***************************************************************************)
coreVars == <<op, query, q, pc, rows, ensgs, symbol, idx, result, trace, parked>>

\* line 128: range(3)
MaxAttempts == 3

\* line 132: attempt == 2
LastAttempt == 2

\* line 135: time.sleep(1)
BackoffSeconds == 1

\* what one invocation of func does: it raises an Exception or returns
Exceptions == {"ConnectionError", "Timeout", "HTTPError", "ValueError"}

FuncValues == {N(1), L(<<>>), None, S(TP)}

Raised(e) == [kind |-> "raised", exc |-> e]

Returned(v) == [kind |-> "returned", value |-> v]

FuncOutcomes == {Raised(e) : e \in Exceptions} \cup {Returned(v) : v \in FuncValues}

Invoked(out) == [ev |-> "call", out |-> out]

Slept == [ev |-> "sleep", secs |-> BackoffSeconds]

\* the except branch sleeping after the last attempt as after the others
OnFailureSleepAlways(r) == [r EXCEPT !.pc = "sleep"]

\* lines 131-135: the except branch of attempt r.attempt
OnFailure(r) ==
  IF r.attempt = LastAttempt THEN [r EXCEPT !.pc = "done", !.result = L(<<>>)]
  ELSE [r EXCEPT !.pc = "sleep"]

\* lines 126-128: the call, up to the first attempt
SafeApiCall ==
  /\ retry.pc = "idle"
  /\ retry' = [pc |-> "try", attempt |-> 0, log |-> <<>>, result |-> None]
  /\ UNCHANGED coreVars

\* lines 129-134: one invocation of func
InvokeFunc ==
  \E out \in FuncOutcomes :
    /\ retry.pc = "try"
    /\ retry' = IF out.kind = "returned"
                THEN [retry EXCEPT !.log = Append(@, Invoked(out)), !.pc = "done",
                                   !.result = out.value]
                ELSE OnFailure([retry EXCEPT !.log = Append(@, Invoked(out))])
    /\ UNCHANGED coreVars

\* line 135, then the next round of the loop, or line 136 when the range is
\* exhausted
Sleep ==
  /\ retry.pc = "sleep"
  /\ retry' = IF retry.attempt + 1 < MaxAttempts
              THEN [retry EXCEPT !.log = Append(@, Slept), !.attempt = @ + 1, !.pc = "try"]
              ELSE [retry EXCEPT !.log = Append(@, Slept), !.attempt = @ + 1, !.pc = "done",
                                 !.result = L(<<>>)]
  /\ UNCHANGED coreVars

\* the wrapper has returned to its caller
RetryReturn ==
  /\ retry.pc = "done"
  /\ retry' = NotRetrying
  /\ UNCHANGED coreVars

NextRetry ==
  \/ SafeApiCall
  \/ InvokeFunc
  \/ Sleep
  \/ RetryReturn

SpecRetry == Init /\ [][NextRetry]_vars

\* func and time.sleep(1) come back: an attempt or a sleep that is due is made
SpecRetryFair == SpecRetry /\ WF_vars(InvokeFunc) /\ WF_vars(Sleep)

IsInvocation(e) == e.ev = "call"

Failed(e) == e.ev = "call" /\ e.out.kind = "raised"

\* what safe_api_call has done so far is a legal run of a wrapper that tries
\* at most MaxAttempts times: func is invoked at most three times; an
\* invocation that returns is the last thing done and its value is the
\* result; a sleep of the fixed backoff stands only between a failed
\* invocation and the next one, so never after the third; and after three
\* failures the result is the empty list
RetrySafe ==
  LET log == retry.log IN
    /\ Len(SelectSeq(log, IsInvocation)) <= MaxAttempts
    /\ \A i \in 1..Len(log) :
         /\ (log[i].ev = "call" /\ log[i].out.kind = "returned") =>
              /\ i = Len(log)
              /\ retry.pc = "done"
              /\ retry.result = log[i].out.value
         /\ (Failed(log[i]) /\ i < Len(log)) => log[i + 1] = Slept
         /\ log[i].ev = "sleep" =>
              /\ log[i].secs = BackoffSeconds
              /\ i > 1
              /\ Failed(log[i - 1])
              /\ Len(SelectSeq(SubSeq(log, 1, i), IsInvocation)) < MaxAttempts
              /\ IF i = Len(log) THEN retry.pc = "try" ELSE log[i + 1].ev = "call"
    /\ retry.pc = "done" =>
         /\ log # <<>>
         /\ log[Len(log)].ev = "call"
         /\ Failed(log[Len(log)]) =>
              /\ Len(SelectSeq(log, IsInvocation)) = MaxAttempts
              /\ retry.result = L(<<>>)
    /\ retry.pc \in {"idle", "try", "sleep", "done"}

\* C24: safe_api_call retries up to 3 times with a fixed backoff: it invokes
\* func at most 3 times, stops at and returns the result of the first
\* invocation that does not raise, sleeps the backoff only between a failed
\* attempt and the next one (never after the third), and once called it
\* terminates: after three failures with the empty list, no exception
\* leaving it
C24_RetryThreeTimesThenEmpty == []RetrySafe /\ ((retry.pc = "try") ~> (retry.pc = "done"))

\* C24 witness: func raised three times; safe_api_call slept twice, between
\* the attempts, and returned the empty list
C24_Witness ==
  /\ retry.pc = "done"
  /\ Len(retry.log) = 5
  /\ \A i \in {1, 3, 5} : Failed(retry.log[i])
  /\ \A i \in {2, 4} : retry.log[i] = Slept
  /\ retry.result = L(<<>>)

\* Direct Accession Lookup is about to be called or has been called
DirectInvoked ==
  \/ pc = "r_direct"
  \/ \E i \in 1..Len(trace) : trace[i].adapter = "DirectAccessionLookup"

\* s, taken as a whole, is ENSG in any letter case, then six or more digits
WholeAccession(s) ==
  \E n \in 6..Len(s) :
    /\ Len(s) = 4 + n
    /\ Lower(SubSeq(s, 1, 4)) = <<"e", "n", "s", "g">>
    /\ \A i \in 1..n : s[4 + i] \in Digits

\* C25: in resolve_to_ensembl_gene Direct Accession Lookup is invoked iff the
\* trimmed query as a whole is ENSG (any letter case) followed by at least
\* six digits and nothing else; any other non-empty token (fewer digits,
\* extra characters, another prefix) has Aggregator Search as its first
\* adapter
C25_DirectLookupIffWholeAccession ==
  (op = "resolve" /\ q # <<>>) =>
    /\ DirectInvoked <=> WholeAccession(q)
    /\ ~WholeAccession(q) =>
         IF trace = <<>> THEN pc = "r_agg" ELSE trace[1].adapter = "AggregatorSearch"

\* C25 witness: the accession followed by a letter went to Aggregator Search
\* first and resolve_to_ensembl_gene returned
C25_Witness ==
  /\ op = "resolve"
  /\ q = E1 \o <<"A">>
  /\ pc = "done"
  /\ trace # <<>>
  /\ trace[1].adapter = "AggregatorSearch"

\* lines 134-136: the reply gives map_gene_ids no hit: it is a failure or not
\* a JSON object, or its "hits" are missing or empty
NoHit(resp) ==
  \/ resp.kind # "ok"
  \/ resp.body.t # "dict"
  \/ ~Truthy(GetD(resp.body, "hits", L(<<>>)))

\* C26: in map_gene_ids, when Aggregator Search yields no hit and the trimmed
\* query is not purely alphabetic, no other adapter is invoked (Aggregator
\* Search stays the only call) and the call returns the empty sequence
C26_NoHitNonAlphabeticCallsNothingElse ==
  (op = "map" /\ trace # <<>> /\ NoHit(trace[1].resp) /\ ~IsAlpha(q)) =>
    /\ Len(trace) = 1
    /\ trace[1].adapter = "AggregatorSearch"
    /\ pc = "done"
    /\ result = L(<<>>)

\* C26 witness: map_gene_ids("TP53"), a symbol with digits, found no hit and
\* returned
C26_Witness ==
  /\ op = "map"
  /\ q = <<"T", "P", "5", "3">>
  /\ Len(trace) = 1
  /\ trace[1].resp = Ok(D([hits |-> L(<<>>)]))
  /\ pc = "done"

\* an ensembl entry carrying a gene accession
CarriesAccession(e) ==
  e.t = "dict" /\ "gene" \in DOMAIN e.v /\ e.v.gene.t = "str" /\ e.v.gene.v # <<>>

\* the gene accessions the hit's ensembl field carries, in the order reported:
\* the one of a single object, or those of the entries of a list
HitAccessions(hit) ==
  LET ens == Get(hit, "ensembl") IN
    IF ens.t = "dict" THEN (IF CarriesAccession(ens) THEN <<ens.v.gene>> ELSE <<>>)
    ELSE IF ens.t = "list"
         THEN [i \in 1..Len(SelectSeq(ens.v, CarriesAccession)) |->
                 SelectSeq(ens.v, CarriesAccession)[i].v.gene]
    ELSE <<>>

\* the accessions of xs without those reported before
RECURSIVE FirstOccurrences(_)
FirstOccurrences(xs) ==
  IF xs = <<>> THEN <<>>
  ELSE LET init == SubSeq(xs, 1, Len(xs) - 1) IN
    IF \E i \in 1..Len(init) : init[i] = xs[Len(xs)] THEN FirstOccurrences(init)
    ELSE Append(FirstOccurrences(init), xs[Len(xs)])

\* the Identifiers of the 'Ensembl Gene' rows map_gene_ids returned
ReturnedEnsemblIds ==
  [i \in 1..Len(SelectSeq(result.v, IsEnsemblRow)) |->
     SelectSeq(result.v, IsEnsemblRow)[i].Identifier]

\* C27: for a first Aggregator hit whose ensembl field carries at least one
\* gene accession (single object or list), resolve_to_ensembl_gene returns
\* through the Aggregator path the first accession carried, and the
\* 'Ensembl Gene' rows map_gene_ids returns are all the accessions carried,
\* in list order, so its first such row has the Identifier resolve returns
C27_ResolveAndMapAgreeOnAccession ==
  /\ (/\ op = "resolve"
      /\ trace # <<>>
      /\ LastCall.adapter = "AggregatorSearch"
      /\ FirstHit(LastCall.resp) # None
      /\ HitAccessions(FirstHit(LastCall.resp)) # <<>>) =>
       /\ pc = "done"
       /\ result.t = "dict"
       /\ Get(result, "ensembl_gene_id") = HitAccessions(FirstHit(LastCall.resp))[1]
  /\ (/\ op = "map"
      /\ pc = "done"
      /\ trace # <<>>
      /\ FirstHit(trace[1].resp) # None
      /\ HitAccessions(FirstHit(trace[1].resp)) # <<>>) =>
       /\ ReturnedEnsemblIds = FirstOccurrences(HitAccessions(FirstHit(trace[1].resp)))
       /\ ReturnedEnsemblIds[1] = HitAccessions(FirstHit(trace[1].resp))[1]

\* the hit whose ensembl list holds an entry without accession, then
\* ENSG000001, ENSG000002 and ENSG000001 again
ListHit ==
  D([symbol |-> S(TP), uniprot |-> D("Swiss-Prot" :> L(<<S(P1), S(P1)>>)),
     ensembl |-> L(<<EmptyDict, D([gene |-> S(E1)]), D([gene |-> S(E2)]),
                     D([gene |-> S(E1)])>>)])

\* resolve_to_ensembl_gene returned ENSG000001 from the Aggregator path on
\* that hit
C27_ResolveSide ==
  /\ op = "resolve"
  /\ pc = "done"
  /\ Len(trace) = 1
  /\ FirstHit(trace[1].resp) = ListHit
  /\ Get(result, "ensembl_gene_id") = S(E1)

\* C27 witness: map_gene_ids returned on that hit; its first 'Ensembl Gene'
\* row is ENSG000001, its second and last ENSG000002
C27_Witness ==
  /\ op = "map"
  /\ pc = "done"
  /\ trace # <<>>
  /\ FirstHit(trace[1].resp) = ListHit
  /\ ReturnedEnsemblIds = <<S(E1), S(E2)>>
IsHgncIdRow(row) == row.Type = "HGNC ID"

\* an expansion entry tagged HGNC whose ID is text
IsHgncEntry(x) ==
  x.t = "dict" /\ Get(x, "dbname") = S(DbHgnc) /\ EntryId(x).t = "str" /\ EntryId(x).v # <<>>

\* the number of a nomenclature ID reported bare or already prefixed
HgncNumber(xid) ==
  IF StartsWith(xid, HgncPrefix) THEN SubSeq(xid, Len(HgncPrefix) + 1, Len(xid)) ELSE xid

\* the ID is a bare number or the prefix and a number
BareOrPrefixed(xid) ==
  /\ HgncNumber(xid) # <<>>
  /\ \A i \in 1..Len(HgncNumber(xid)) : HgncNumber(xid)[i] \in Digits

\* the rows a step appended to the buffer
Appended == SubSeq(rows', Len(rows) + 1, Len(rows'))

\* a step that harvested an expansion reply: a list of entries whose HGNC
\* IDs are reported in one of the two forms
HgncHarvested ==
  /\ op = "map"
  /\ pc = "m_xref"
  /\ pc' # "raised"
  /\ Len(trace') = Len(trace) + 1
  /\ trace'[Len(trace')].resp.kind = "ok"
  /\ trace'[Len(trace')].resp.body.t = "list"
  /\ \A i \in 1..Len(trace'[Len(trace')].resp.body.v) :
       IsHgncEntry(trace'[Len(trace')].resp.body.v[i]) =>
         BareOrPrefixed(EntryId(trace'[Len(trace')].resp.body.v[i]).v)

\* the 'HGNC ID' rows such a step appends are, in order, one per HGNC entry
\* of the reply, its Identifier the prefix once and then the number
PrefixedOnce ==
  HgncHarvested =>
    LET entries == SelectSeq(trace'[Len(trace')].resp.body.v, IsHgncEntry)
        new == SelectSeq(Appended, IsHgncIdRow)
    IN /\ Len(new) = Len(entries)
       /\ \A i \in 1..Len(new) :
            /\ new[i].Identifier = S(HgncPrefix \o HgncNumber(EntryId(entries[i]).v))
            /\ new[i].URL = UrlHgncReport \o HgncPrefix \o HgncNumber(EntryId(entries[i]).v)

\* some expansion reply of the call reported the nomenclature ID n, bare or
\* prefixed
ExpansionReported(n) ==
  \E i \in 1..Len(trace) :
    /\ IsExpansion(trace[i])
    /\ trace[i].resp.kind = "ok"
    /\ trace[i].resp.body.t = "list"
    /\ \E k \in 1..Len(trace[i].resp.body.v) :
         /\ IsHgncEntry(trace[i].resp.body.v[k])
         /\ HgncNumber(EntryId(trace[i].resp.body.v[k]).v) = n

\* the Aggregator hit and an expansion reported the same ID n, the hit as a
\* bare number
SameIdTwice(n) ==
  /\ MapReturned
  /\ trace # <<>>
  /\ FirstHit(trace[1].resp) # None
  /\ Truthy(Get(FirstHit(trace[1].resp), "hgnc"))
  /\ PyStr(Get(FirstHit(trace[1].resp), "hgnc")) = n
  /\ ExpansionReported(n)

\* then the output holds exactly one 'HGNC ID' row, HGNC:n
OneHgncRow ==
  \A n \in {<<"1", "1">>} :
    SameIdTwice(n) =>
      /\ Len(SelectSeq(result.v, IsHgncIdRow)) = 1
      /\ SelectSeq(result.v, IsHgncIdRow)[1].Identifier = S(HgncPrefix \o n)

\* C28: every 'HGNC ID' row map_gene_ids takes from Cross-Reference
\* Expansion has an Identifier with the prefix HGNC: exactly once, whether
\* the entry reported the bare number or the prefixed form; so the same ID
\* reported as a bare number by Aggregator Search and in either form by an
\* expansion gives exactly one 'HGNC ID' row in the output
C28_HgncPrefixedOnce == []OneHgncRow /\ [][PrefixedOnce]_vars

\* C28 witness: the hit reported 11, the expansion reported HGNC:11 and 11,
\* and the output holds the one row HGNC:11
C28_Witness ==
  /\ SameIdTwice(<<"1", "1">>)
  /\ Len(trace) = 2
  /\ trace[2].resp.kind = "ok"
  /\ trace[2].resp.body =
       L(<<D([dbname |-> S(DbHgnc), primary_id |-> S(HgncPrefix \o <<"1", "1">>)]),
           D([dbname |-> S(DbHgnc), primary_id |-> S(<<"1", "1">>)])>>)
  /\ Len(SelectSeq(result.v, IsHgncIdRow)) = 1

\* any two rows of rs with equal Type and Identifier have equal URL
UrlByKey(rs) ==
  \A i, j \in 1..Len(rs) : RowKey(rs[i]) = RowKey(rs[j]) => rs[i].URL = rs[j].URL

\* C29: in map_gene_ids the URL of a row is a function of its
\* (Type, Identifier): any two rows of the buffer, whatever steps appended
\* them, with equal Type and Identifier have equal URL; so every row of the
\* buffer is, link included, a row of the returned output
C29_UrlFunctionOfKey ==
  op = "map" =>
    /\ UrlByKey(rows)
    /\ pc = "done" => \A i \in 1..Len(rows) : \E k \in 1..Len(result.v) : result.v[k] = rows[i]

\* C29 witness: the Aggregator hit and the expansion both supplied HGNC:11
\* and P1; the buffer holds each row twice and the call returned
C29_Witness ==
  /\ MapReturned
  /\ \E i, j \in 1..Len(rows) :
       i < j /\ rows[i].Type = "HGNC ID" /\ RowKey(rows[i]) = RowKey(rows[j])
  /\ \E i, j \in 1..Len(rows) :
       i < j /\ rows[i].Type = "UniProtKB" /\ RowKey(rows[i]) = RowKey(rows[j])
  /\ Len(result.v) < Len(rows)

IsRefSeqRnaRow(row) == row.Type = "RefSeq RNA"

IsRefSeqProteinRow(row) == row.Type = "RefSeq Protein"

\* the Identifiers of the rows rs
Identifiers(rs) == [i \in 1..Len(rs) |-> rs[i].Identifier]

\* the first n entries of xs, all of them when there are fewer
FirstEntries(xs, n) == [i \in 1..(IF Len(xs) < n THEN Len(xs) ELSE n) |-> xs[i]]

\* a step that harvested an Aggregator hit whose refseq field holds an rna
\* list and a protein list
RefSeqListsHarvested ==
  /\ op = "map"
  /\ pc = "m_agg"
  /\ pc' # "raised"
  /\ Len(trace') = 1
  /\ FirstHit(trace'[1].resp) # None
  /\ Get(FirstHit(trace'[1].resp), "refseq").t = "dict"
  /\ Get(Get(FirstHit(trace'[1].resp), "refseq"), "rna").t = "list"
  /\ Get(Get(FirstHit(trace'[1].resp), "refseq"), "protein").t = "list"

\* the step appends the first 20 entries of each list, in list order
FirstTwentyOfEach ==
  RefSeqListsHarvested =>
    LET refseq == Get(FirstHit(trace'[1].resp), "refseq") IN
      /\ Identifiers(SelectSeq(rows', IsRefSeqRnaRow)) = FirstEntries(Get(refseq, "rna").v, 20)
      /\ Identifiers(SelectSeq(rows', IsRefSeqProteinRow)) =
           FirstEntries(Get(refseq, "protein").v, 20)

\* the output holds at most 20 'RefSeq Protein' rows
AtMostTwentyProteinRows ==
  MapReturned => Len(SelectSeq(result.v, IsRefSeqProteinRow)) <= 20

\* C30: from one Aggregator hit map_gene_ids harvests at most the first 20
\* entries of the RefSeq RNA list and at most the first 20 entries of the
\* RefSeq Protein list, in list order, so the output never holds more than
\* 20 'RefSeq Protein' rows, however many the service returns
C30_RefSeqListsCapped == []AtMostTwentyProteinRows /\ [][FirstTwentyOfEach]_vars

\* C30 witness: the hit reported 21 RNA and 21 protein entries and the output
\* holds 20 rows of each, the last ones NM20 and NP20
C30_Witness ==
  /\ MapReturned
  /\ trace # <<>>
  /\ FirstHit(trace[1].resp) = D([refseq |-> D([rna |-> L(ManyRna), protein |-> L(ManyProtein)])])
  /\ Len(SelectSeq(result.v, IsRefSeqRnaRow)) = 20
  /\ Len(SelectSeq(result.v, IsRefSeqProteinRow)) = 20
  /\ SelectSeq(result.v, IsRefSeqProteinRow)[20].Identifier = S(<<"N", "P", "2", "0">>)

====
